---- MODULE Spec2Model ----
(***************************************************************************)
(* Language-client sessions of the C/C++ extension: the readiness gate of  *)
(* DefaultClient (requestWhenReady / notifyWhenReady over onReadyPromise), *)
(* the crash policy of errorHandler.closed, and the registry operations    *)
(* the crash policy calls.                                                 *)
(*                                                                         *)
(* The JavaScript event loop is modelled by the microtasks queue: promise  *)
(* reactions run one at a time, in the order they were scheduled, and no   *)
(* event handler (a macrotask) starts while a reaction is waiting.         *)
(***************************************************************************)
EXTENDS Integers, Sequences, FiniteSets, TLC

VARIABLES
    clients,              \* every DefaultClient object constructed so far, in order of construction
    slots,                \* ClientCollection: workspace folder -> registered client
    microtasks,           \* promise reactions scheduled and not yet run
    calls,                \* every gated call submitted so far, with its fate
    now,                  \* the last value Date.now() returned
    crashLog,             \* history: every crash time of a folder, oldest first
    notices,              \* history: every showErrorMessage, in order
    failureMessageShown,  \* PersistentState "DefaultClient.failureMessageShown"
    platformSupported,    \* process.platform is one getLanguageServerFileName knows
    multiRoot,            \* vscode.workspace.workspaceFolders.length > 1
    activeClient,         \* ClientCollection.ActiveClient
    fallback,             \* ClientCollection: the folder of the session registered first
    activated,            \* <<c, key>>: model field key of session c is enabled
    openDocs,             \* the documents open in the editor
    tracked,              \* <<c, d>>: document d is in trackedDocuments of session c
    inflight,             \* the sessions with a forwarded request not yet answered
    routed,               \* history: what the filters made of the last editor event
    isTagParsing,         \* the sessions whose model.isTagParsing holds true
    writes,               \* history: every write to model.isTagParsing, in order
    navigation,           \* model.navigationLocation, with the last report navigate() handled
    chain,                \* the promise chain BuildPromiseChain built over the packages
    dl,                   \* per package: where its DownloadPackage call stands
    files,                \* per package: what has been written to its temporary file
    telemetry,            \* the acquisition events logged, in order
    install               \* per package: where its InstallPackage call stands

routerVars == <<activeClient, fallback, activated, openDocs, tracked, inflight, routed>>

modelVars == <<isTagParsing, writes, navigation>>

packageVars == <<chain, dl, files, telemetry, install>>

\* The variables of the language client sessions.
sessionVars == <<clients, slots, microtasks, calls, now, crashLog, notices,
                 failureMessageShown, platformSupported, multiRoot, routerVars, modelVars>>

vars == <<clients, slots, microtasks, calls, now, crashLog, notices,
          failureMessageShown, platformSupported, multiRoot, routerVars, modelVars,
          packageVars>>

(***************************************************************************)
(* Bounds of the exploration.                                              *)
(***************************************************************************)
MaxClients == 2          \* DefaultClient objects constructed in a run of Spec
MaxCalls == 2            \* gated calls submitted in a run of Spec
MaxCrashSessions == 8    \* DefaultClient objects constructed in a run of SpecCrash
MaxRouterClients == 3    \* DefaultClient objects constructed in a run of SpecRouter
MaxRouterCalls == 2      \* gated calls after which SpecRouter starts no handler that makes one

Folders == {"a", "b"}
GateFolders == {"a"}     \* the folders that get a session in Spec
CrashFolders == {"a"}    \* the folders that get a session in SpecCrash
MaxErrors == 1           \* transport errors reported in a run of Spec

\* Date.now() advances by one of these between two crashes (milliseconds).
Deltas == {0, 90000, 90001}

\* The same in Spec, whose runs are too short for the crash window to matter.
GateDeltas == {90000}
BurstDeltas == {0}

(***************************************************************************)
(* Program constants.                                                      *)
(***************************************************************************)
CrashLimit == 5
CrashWindow == 3 * 60 * 1000

Requests == {"requestGoToDeclaration", "requestSwitchHeaderSource", "requestNavigationList"}
Notifications == {"selectionChanged"}

\* slots values that are no DefaultClient
Unregistered == 0
NullClient == -1

\* the entry of sent that stands for the QueryDefaultPathsRequest of the ready callback
QueryDefaultPaths == 0

UnableToStart == [text |-> "Unable to start the C/C++ language server", folder |-> "", named |-> FALSE]

CrashNotice(f) == [text |-> "crashed 5 times in the last 3 minutes", folder |-> f, named |-> multiRoot]

(***************************************************************************)
(* DefaultClient                                                           *)
(***************************************************************************)

\* The field values of a DefaultClient when its constructor returns.
\* createLanguageClient throws "Invalid Platform" on an unknown platform, and
\* the catch block leaves onReadyPromise undefined.
NewClient(f) ==
    IF platformSupported
    THEN [folder |-> f, transport |-> "starting", starts |-> 1,
          languageClient |-> FALSE, isSupported |-> TRUE,
          onReadyPromise |-> "pending", deferred |-> <<>>,
          crashTimes |-> <<>>, closeAction |-> "none", errorAction |-> "none",
          disposed |-> FALSE, sent |-> <<>>]
    ELSE [folder |-> f, transport |-> "none", starts |-> 0,
          languageClient |-> FALSE, isSupported |-> FALSE,
          onReadyPromise |-> "undefined", deferred |-> <<>>,
          crashTimes |-> <<>>, closeAction |-> "none", errorAction |-> "none",
          disposed |-> FALSE, sent |-> <<>>]

\* Mutant: the failure paths show the notice whatever failureMessageShown holds.
NoticesAfterFailureAlways == Append(notices, UnableToStart)

\* The two failure paths show the notice unless failureMessageShown is set.
NoticesAfterFailure == IF failureMessageShown THEN notices ELSE Append(notices, UnableToStart)

\* The gate of a session, read off the two fields the code tests.
Ready(c) == clients[c].languageClient
Failed(c) == ~clients[c].isSupported
Pending(c) == ~Ready(c) /\ ~Failed(c)

Live == 1..Len(clients)

\* createClient: the constructor, and the registration of the new session.
CreateClient(f) ==
    /\ microtasks = <<>>
    /\ slots[f] = Unregistered
    /\ clients' = Append(clients, NewClient(f))
    /\ slots' = [slots EXCEPT ![f] = Len(clients) + 1]
    /\ notices' = IF platformSupported THEN notices ELSE NoticesAfterFailure
    /\ failureMessageShown' = IF platformSupported THEN failureMessageShown ELSE TRUE
    /\ UNCHANGED <<microtasks, calls, now, crashLog, platformSupported, multiRoot>>

\* Mutant: the reactions run newest first.
ReactionsNewestFirst(c) ==
    [i \in 1..Len(clients[c].deferred) |->
        [client |-> c, call |-> clients[c].deferred[Len(clients[c].deferred) + 1 - i]]]

\* The reactions registered on onReadyPromise, scheduled in registration order.
Reactions(c) == [i \in 1..Len(clients[c].deferred) |-> [client |-> c, call |-> clients[c].deferred[i]]]

\* Mutant: the ready callback does not send QueryDefaultPathsRequest.
SentAtReadySkipped(sent) == sent

\* The ready callback sends QueryDefaultPathsRequest itself, past the gate.
SentAtReady(sent) == Append(sent, QueryDefaultPaths)

\* languageClient.onReady() resolves: the first callback of the constructor.
OnReadyFulfilled(c) ==
    /\ microtasks = <<>>
    /\ clients[c].onReadyPromise = "pending"
    /\ clients[c].transport = "starting"
    /\ clients' = [clients EXCEPT ![c].languageClient = TRUE,
                                  ![c].transport = "running",
                                  ![c].onReadyPromise = "fulfilled",
                                  ![c].sent = SentAtReady(@)]
    /\ failureMessageShown' = FALSE
    /\ microtasks' = Reactions(c)
    /\ UNCHANGED <<slots, calls, now, crashLog, notices, platformSupported, multiRoot>>

\* languageClient.onReady() rejects: the second callback of the constructor.
\* The callback returns normally, so onReadyPromise is fulfilled and the
\* reactions registered on it are scheduled.
OnReadyRejected(c) ==
    /\ microtasks = <<>>
    /\ clients[c].onReadyPromise = "pending"
    /\ clients[c].transport \in {"starting", "closed"}
    /\ clients' = [clients EXCEPT ![c].isSupported = FALSE,
                                  ![c].onReadyPromise = "fulfilled"]
    /\ notices' = NoticesAfterFailure
    /\ failureMessageShown' = TRUE
    /\ microtasks' = Reactions(c)
    /\ UNCHANGED <<slots, calls, now, crashLog, platformSupported, multiRoot>>

\* What the gate was when a call was submitted (history, for the properties).
GateOf(c) == IF Ready(c) THEN "Ready" ELSE IF Failed(c) THEN "Failed" ELSE "Pending"

NewCall(c, kind, state) == [client |-> c, kind |-> kind, state |-> state, gate |-> GateOf(c)]

\* Mutant: a caller may run between two promise reactions.
IdleAlways == TRUE

\* A caller of the gate runs as a task of its own: the reactions that
\* onReadyPromise scheduled have all run before the next task starts.
Idle == microtasks = <<>>

\* Mutant: the second branch tests only that onReadyPromise exists.
RequestBranchIgnoresSupport(c) ==
    IF clients[c].languageClient THEN "now"
    ELSE IF clients[c].onReadyPromise # "undefined" THEN "then"
    ELSE "reject"

\* The branch requestWhenReady takes: call now, wait for onReadyPromise, or refuse.
RequestBranch(c) ==
    IF clients[c].languageClient THEN "now"
    ELSE IF clients[c].isSupported /\ clients[c].onReadyPromise # "undefined" THEN "then"
    ELSE "reject"

\* The branch notifyWhenReady takes: it has no third branch, the call is dropped.
NotifyBranch(c) ==
    IF clients[c].languageClient THEN "now"
    ELSE IF clients[c].isSupported /\ clients[c].onReadyPromise # "undefined" THEN "then"
    ELSE "drop"

\* onReadyPromise.then(continuation): the reaction waits while the promise is
\* pending and is scheduled at once when the promise is already settled.
Then(c, k) ==
    IF clients[c].onReadyPromise = "pending"
    THEN /\ clients' = [clients EXCEPT ![c].deferred = Append(@, k)]
         /\ UNCHANGED microtasks
    ELSE /\ microtasks' = Append(microtasks, [client |-> c, call |-> k])
         /\ UNCHANGED clients

\* requestWhenReady(request), for the three request methods of the session.
RequestWhenReady(c, kind) ==
    /\ Idle
    /\ LET k == Len(calls) + 1
           branch == RequestBranch(c)
       IN IF branch = "now"
          THEN /\ clients' = [clients EXCEPT ![c].sent = Append(@, k)]
               /\ calls' = Append(calls, NewCall(c, kind, "transmitted"))
               /\ UNCHANGED microtasks
          ELSE IF branch = "then"
          THEN /\ calls' = Append(calls, NewCall(c, kind, "deferred"))
               /\ Then(c, k)
          ELSE /\ calls' = Append(calls, NewCall(c, kind, "rejected: Unsupported client"))
               /\ UNCHANGED <<clients, microtasks>>
    /\ UNCHANGED <<slots, now, crashLog, notices, failureMessageShown, platformSupported, multiRoot>>

\* notifyWhenReady(notify), for the notification methods of the session.
NotifyWhenReady(c, kind) ==
    /\ Idle
    /\ LET k == Len(calls) + 1
           branch == NotifyBranch(c)
       IN IF branch = "now"
          THEN /\ clients' = [clients EXCEPT ![c].sent = Append(@, k)]
               /\ calls' = Append(calls, NewCall(c, kind, "transmitted"))
               /\ UNCHANGED microtasks
          ELSE IF branch = "then"
          THEN /\ calls' = Append(calls, NewCall(c, kind, "deferred"))
               /\ Then(c, k)
          ELSE /\ calls' = Append(calls, NewCall(c, kind, "dropped"))
               /\ UNCHANGED <<clients, microtasks>>
    /\ UNCHANGED <<slots, now, crashLog, notices, failureMessageShown, platformSupported, multiRoot>>

\* The fate of a deferred continuation, () => request() or () => notify(),
\* once it runs. Every continuation starts with this.languageClient.send...,
\* which throws a TypeError while this.languageClient is undefined. The
\* promise a request's then() returned is the caller's and rejects with that
\* error; the promise a notification's then() returned belongs to nobody.
ContinuationFate(c, kind) ==
    IF clients[c].languageClient THEN "transmitted"
    ELSE IF kind \in Requests THEN "rejected: TypeError"
    ELSE "unhandled rejection: TypeError"

\* One promise reaction: the continuation of the oldest scheduled deferred call.
RunMicrotask ==
    /\ microtasks # <<>>
    /\ LET job == Head(microtasks)
           c == job.client
           k == job.call
           fate == ContinuationFate(c, calls[k].kind)
       IN /\ calls' = [calls EXCEPT ![k].state = fate]
          /\ clients' = IF fate = "transmitted"
                        THEN [clients EXCEPT ![c].sent = Append(@, k)]
                        ELSE clients
    /\ microtasks' = Tail(microtasks)
    /\ UNCHANGED <<slots, now, crashLog, notices, failureMessageShown, platformSupported, multiRoot>>

\* errorHandler.error answers Continue: the transport goes on as it was.
ErrorActionOf(c) == "Continue"

TransportError(c) ==
    /\ microtasks = <<>>
    /\ clients[c].transport \in {"starting", "running"}
    /\ Cardinality({x \in Live : clients[x].errorAction # "none"}) < MaxErrors
    /\ clients[c].errorAction = "none"
    /\ clients' = [clients EXCEPT ![c].errorAction = ErrorActionOf(c),
                                  ![c].transport = IF ErrorActionOf(c) = "Continue" THEN @ ELSE "stopped"]
    /\ UNCHANGED <<slots, microtasks, calls, now, crashLog, notices, failureMessageShown,
                   platformSupported, multiRoot>>

\* Mutant: dispose() also forgets the transport it stopped.
DisposedClearsLanguageClient(cl) ==
    [cl EXCEPT !.disposed = TRUE,
               !.languageClient = FALSE,
               !.transport = IF cl.languageClient /\ cl.transport \in {"starting", "running"}
                             THEN "stopped" ELSE @]

\* dispose(): the transport is stopped only if this.languageClient is set.
Disposed(cl) ==
    [cl EXCEPT !.disposed = TRUE,
               !.transport = IF cl.languageClient /\ cl.transport \in {"starting", "running"}
                             THEN "stopped" ELSE @]

Dispose(c) ==
    /\ microtasks = <<>>
    /\ ~clients[c].disposed
    /\ clients' = [clients EXCEPT ![c] = Disposed(@)]
    /\ UNCHANGED <<slots, microtasks, calls, now, crashLog, notices, failureMessageShown,
                   platformSupported, multiRoot>>
(***************************************************************************)
(* ClientCollection.replace                                                *)
(***************************************************************************)

\* The client objects after replace(c, transfer): the replaced session is
\* disposed, and with transfer a new session is constructed for its folder.
Replace(cs, c, transfer) ==
    LET rest == [cs EXCEPT ![c] = Disposed(@)] IN
    IF transfer THEN Append(rest, NewClient(cs[c].folder)) ELSE rest

\* The registry after replace(c, transfer): the new session takes the slot of
\* the replaced one; without transfer the slot is left to a NullClient.
ReplaceSlots(c, transfer) ==
    [slots EXCEPT ![clients[c].folder] = IF transfer THEN Len(clients) + 1 ELSE NullClient]

(***************************************************************************)
(* errorHandler.closed: the crash policy                                   *)
(***************************************************************************)

\* Mutant: the limit is tested with <=.
BelowLimitInclusive(times) == Len(times) <= CrashLimit

\* crashTimes.length < 5, tested after the push
BelowLimit(times) == Len(times) < CrashLimit

\* Mutant: the window is tested with <.
WithinWindowStrict(times) == times[Len(times)] - times[1] < CrashWindow

\* elapsed <= 3 * 60 * 1000, for a record that reached the limit
WithinWindow(times) == times[Len(times)] - times[1] <= CrashWindow

\* The branch of the handler that gives up on the folder.
CrashStops(times) == ~BelowLimit(times) /\ WithinWindow(times)

\* Mutant: the last branch forgets shift().
CrashRecordNoShift(times) == times

\* Mutant: the last branch empties the record.
CrashRecordCleared(times) ==
    IF BelowLimit(times) THEN times
    ELSE IF WithinWindow(times) THEN times
    ELSE <<>>

\* this.crashTimes when the handler returns: shift() in the last branch only.
CrashRecord(times) ==
    IF BelowLimit(times) THEN times
    ELSE IF WithinWindow(times) THEN times
    ELSE Tail(times)

\* Mutant: the handler asks the transport to restart.
CloseActionRestart(c) == "Restart"

\* The answer of the handler to the transport.
CloseActionOf(c) == "DoNotRestart"

\* Mutant: the record is not handed to the new session.
MigrateNothing(cs, record) == cs

\* newClient.crashTimes = this.crashTimes, on the session replace returned,
\* which is the one constructed last.
Migrate(cs, record) == [cs EXCEPT ![Len(cs)].crashTimes = record]

\* Mutant: the stop branch asks for a successor too.
TransferAlways(stop) == TRUE

\* Mutant: no branch asks for a successor.
TransferNever(stop) == FALSE

\* The second argument of allClients.replace: true in the two branches that
\* go on, false in the branch that gives up.
TransferCrashRecord(stop) == ~stop

\* The branch the close handler of c takes when Date.now() returns t.
Stops(c, t) == CrashStops(Append(clients[c].crashTimes, t))

\* The session objects when the close handler of c returns, for Date.now() = t.
AfterClosed(c, t) ==
    LET pushed == Append(clients[c].crashTimes, t)
        stop == CrashStops(pushed)
        record == CrashRecord(pushed)
        answer == CloseActionOf(c)
        closed == [clients EXCEPT ![c].crashTimes = record,
                                  ![c].closeAction = answer,
                                  ![c].transport = IF answer = "Restart" THEN "starting" ELSE "closed",
                                  ![c].starts = IF answer = "Restart" THEN @ + 1 ELSE @]
        replaced == Replace(closed, c, TransferCrashRecord(stop))
    IN IF stop THEN replaced ELSE Migrate(replaced, record)

\* The transport closed: Date.now() is read, the policy decides, the registry
\* replaces the session, and the transport restarts itself only if told to.
Closed(c, d) ==
    /\ microtasks = <<>>
    /\ clients[c].transport \in {"starting", "running"}
    /\ LET t == now + d
           f == clients[c].folder
           stop == Stops(c, t)
       IN /\ now' = t
          /\ crashLog' = [crashLog EXCEPT ![f] = Append(@, t)]
          /\ clients' = AfterClosed(c, t)
          /\ slots' = ReplaceSlots(c, TransferCrashRecord(stop))
          /\ notices' = IF stop THEN Append(notices, CrashNotice(f)) ELSE notices
    /\ UNCHANGED <<microtasks, calls, failureMessageShown, platformSupported, multiRoot>>

(***************************************************************************)
(* Workspace folders, documents and the registry's view of them            *)
(***************************************************************************)

NoFolder == ""
NoDoc == ""

\* The workspace folders, as path segments; "b" lies inside "a".
FolderOrder == <<"a", "b", "d", "e">>
FolderPath == ("a" :> <<"a">>) @@ ("b" :> <<"a", "b">>) @@
              ("d" :> <<"a", "b", "d">>) @@ ("e" :> <<"e">>)
OwnerFolders == {"a", "b", "d", "e"}     \* the folders that get a session in SpecOwner

DocPath == ("/a/file.cpp" :> <<"a", "file.cpp">>) @@
           ("/a/b/file.cpp" :> <<"a", "b", "file.cpp">>) @@
           ("/a/b/d/file.cpp" :> <<"a", "b", "d", "file.cpp">>) @@
           ("/ab/file.cpp" :> <<"ab", "file.cpp">>) @@
           ("/c/file.cpp" :> <<"c", "file.cpp">>) @@
           ("/e/file.cpp" :> <<"e", "file.cpp">>)
OwnerDocs == DOMAIN DocPath

\* The documents the editor opens in SpecRouter, in the order a transfer visits them.
DocOrder == <<"/a/b/file.cpp", "/c/file.cpp">>
Docs == {DocOrder[i] : i \in 1..Len(DocOrder)}

PathPrefix(p, q) == Len(p) <= Len(q) /\ \A i \in 1..Len(p) : p[i] = q[i]

\* Mutant: the first registered folder that contains the document wins.
RECURSIVE FirstMatch(_, _, _, _)
FirstMatch(reg, path, order, best) ==
    IF order = <<>> THEN best
    ELSE LET f == Head(order)
             better == /\ reg[f] # Unregistered
                       /\ PathPrefix(FolderPath[f], path)
                       /\ best = NoFolder
         IN FirstMatch(reg, path, Tail(order), IF better THEN f ELSE best)

\* The registered folder with the longest path that is a prefix of path.
RECURSIVE LongestMatch(_, _, _, _)
LongestMatch(reg, path, order, best) ==
    IF order = <<>> THEN best
    ELSE LET f == Head(order)
             better == /\ reg[f] # Unregistered
                       /\ PathPrefix(FolderPath[f], path)
                       /\ best = NoFolder \/ Len(FolderPath[f]) > Len(FolderPath[best])
         IN LongestMatch(reg, path, Tail(order), IF better THEN f ELSE best)

\* ownerOf(document), for the registry reg whose first registered folder is fb.
OwnerOf(reg, fb, d) ==
    LET known == SelectSeq(FolderOrder, LAMBDA f : f \in DOMAIN reg)
        f == LongestMatch(reg, DocPath[d], known, NoFolder)
    IN IF f # NoFolder THEN reg[f]
       ELSE IF fb # NoFolder THEN reg[fb]
       ELSE Unregistered

CheckOwnership(c, d) == OwnerOf(slots, fallback, d) = c

\* The sessions the registry holds.
Registered == {slots[f] : f \in DOMAIN slots} \ {Unregistered}

(***************************************************************************)
(* Handlers that make several gated calls                                  *)
(***************************************************************************)

\* The part of the state such a handler works on.
Gate == [clients |-> clients, calls |-> calls, microtasks |-> microtasks,
         activated |-> activated, tracked |-> tracked]

Commit(g) ==
    /\ clients' = g.clients
    /\ calls' = g.calls
    /\ microtasks' = g.microtasks
    /\ activated' = g.activated
    /\ tracked' = g.tracked

\* notifyWhenReady(notify) on session c as one step of a handler. A NullClient
\* has empty methods.
Notified(g, c, kind) ==
    IF c \notin 1..Len(g.clients) THEN g
    ELSE LET cl == g.clients[c]
             k == Len(g.calls) + 1
             gate == IF cl.languageClient THEN "Ready"
                     ELSE IF ~cl.isSupported THEN "Failed" ELSE "Pending"
             call(state) == [client |-> c, kind |-> kind, state |-> state, gate |-> gate]
         IN IF cl.languageClient
            THEN [g EXCEPT !.clients[c].sent = Append(@, k),
                           !.calls = Append(@, call("transmitted"))]
            ELSE IF cl.isSupported /\ cl.onReadyPromise # "undefined"
            THEN IF cl.onReadyPromise = "pending"
                 THEN [g EXCEPT !.clients[c].deferred = Append(@, k),
                                !.calls = Append(@, call("deferred"))]
                 ELSE [g EXCEPT !.microtasks = Append(@, [client |-> c, call |-> k]),
                                !.calls = Append(@, call("deferred"))]
            ELSE [g EXCEPT !.calls = Append(@, call("dropped"))]

\* The fields of DefaultClient.model.
ModelKeys == {"isTagParsing", "isUpdatingIntelliSense", "navigationLocation",
              "tagParserStatus", "activeConfigName"}

\* Mutant: the loop misses the last key.
KeysToggledButLast == ModelKeys \ {"activeConfigName"}

\* for (var key in this.model): every own key of the model.
KeysToggled == ModelKeys

\* Mutant: deactivate() leaves the model fields enabled.
ModelAfterDeactivateKept(on, c) == on

\* The enabled model fields after deactivate() on c.
ModelAfterDeactivate(on, c) == on \ ({c} \X KeysToggled)

\* The enabled model fields after dispose() on c: its bindings are torn down.
ModelAfterDispose(on, c) == {p \in on : p[1] # c}

\* activate(): every model field is enabled, then resumeParsing().
Activated(g, c) ==
    IF c \notin 1..Len(g.clients) THEN g
    ELSE [Notified(g, c, "resumeParsing") EXCEPT !.activated = @ \cup ({c} \X KeysToggled)]

\* deactivate(): every model field is disabled, then pauseParsing().
Deactivated(g, c) ==
    IF c \notin 1..Len(g.clients) THEN g
    ELSE [Notified(g, c, "pauseParsing") EXCEPT !.activated = ModelAfterDeactivate(@, c)]

\* takeOwnership(document): the DidOpenNotification is handed to
\* notifyWhenReady first, the document is added to trackedDocuments after.
\* The gated call of kind d stands for the DidOpenNotification of d.
TakenOwnership(g, c, d) ==
    IF c \notin 1..Len(g.clients) THEN g
    ELSE [Notified(g, c, d) EXCEPT !.tracked = @ \cup {<<c, d>>}]

\* replace(old, true) preserves document ownership: the new session takes
\* every document the old one tracked.
RECURSIVE Transferred(_, _, _, _)
Transferred(g, old, new, order) ==
    IF order = <<>> THEN g
    ELSE LET d == Head(order)
             moved == [TakenOwnership(g, new, d) EXCEPT !.tracked = @ \ {<<old, d>>}]
         IN Transferred(IF <<old, d>> \in g.tracked THEN moved ELSE g, old, new, Tail(order))

(***************************************************************************)
(* The registry                                                            *)
(***************************************************************************)

\* register(session) of a new session for folder f: the first session
\* registered is the fallback and the active one.
Register(f) ==
    /\ microtasks = <<>>
    /\ slots[f] = Unregistered
    /\ LET new == Len(clients) + 1
           first == fallback = NoFolder
           made == [Gate EXCEPT !.clients = Append(@, NewClient(f))]
       IN /\ Commit(IF first THEN Activated(made, new) ELSE made)
          /\ slots' = [slots EXCEPT ![f] = new]
          /\ fallback' = IF first THEN f ELSE fallback
          /\ activeClient' = IF first THEN new ELSE activeClient
    /\ notices' = IF platformSupported THEN notices ELSE NoticesAfterFailure
    /\ failureMessageShown' = IF platformSupported THEN failureMessageShown ELSE TRUE
    /\ UNCHANGED <<now, crashLog, platformSupported, multiRoot, openDocs, inflight, routed>>

\* set ActiveClient: the previous session is deactivated and the new one
\* activated in the same step.
SetActiveClient(t) ==
    /\ microtasks = <<>>
    /\ t \in Registered
    /\ t # activeClient
    /\ Commit(Activated(Deactivated(Gate, activeClient), t))
    /\ activeClient' = t
    /\ UNCHANGED <<slots, now, crashLog, notices, failureMessageShown, platformSupported,
                   multiRoot, fallback, openDocs, inflight, routed>>

(***************************************************************************)
(* createProtocolFilter                                                    *)
(***************************************************************************)

ProviderMethods == {"provideHover"}
RoutedMethods == ProviderMethods \cup {"willSaveWaitUntil", "didChange"}

\* The sessions whose language client is serving: an editor event reaches
\* the filter of each of them.
Asked == {c \in Live : clients[c].transport = "running"}

\* Mutant: every filter forwards.
ForwardsAlways(c) == TRUE

\* Mutant: the filter of a session that is not active forwards.
ForwardsIfInactive(c) == activeClient # c

\* clients.ActiveClient === me
Forwards(c) == activeClient = c

\* What a filter that does not forward returns.
NeutralResult(method) ==
    IF method = "willSaveWaitUntil" THEN "Promise.resolve([])"
    ELSE IF method \in ProviderMethods THEN "null"
    ELSE "undefined"

FilterResult(c, method) == IF Forwards(c) THEN "callback" ELSE NeutralResult(method)

\* The sessions that have document d in trackedDocuments.
Trackers(tr, d) == {c \in Live : <<c, d>> \in tr}

Route(event, d, owner, asked, forwarded, result, before, after, atSend) ==
    [event |-> event, doc |-> d, active |-> activeClient, owner |-> owner,
     asked |-> asked, forwarded |-> forwarded, result |-> result,
     before |-> before, after |-> after, atSend |-> atSend]

NoRoute == [event |-> "none"]

\* One editor call that is neither didOpen nor didClose, handed to every filter.
EditorCall(method) ==
    /\ microtasks = <<>>
    /\ Asked # {}
    /\ LET forwarded == {c \in Asked : Forwards(c)}
       IN /\ routed' = Route(method, NoDoc, Unregistered, Asked, forwarded,
                             [c \in Asked |-> FilterResult(c, method)], {}, {}, {})
          /\ inflight' = IF method \in ProviderMethods THEN inflight \cup forwarded ELSE inflight
    /\ UNCHANGED <<clients, slots, microtasks, calls, now, crashLog, notices, failureMessageShown,
                   platformSupported, multiRoot, activeClient, fallback, activated, openDocs, tracked>>

\* The calls about an open document that go through defaultHandler.
DocMethods == {"didChange", "willSave", "didSave"}

\* The editor reports a change or a save of the open document d: the
\* defaultHandler of every filter.
DocEvent(method, d) ==
    /\ microtasks = <<>>
    /\ d \in openDocs
    /\ Asked # {}
    /\ LET forwarded == {c \in Asked : Forwards(c)}
       IN routed' = Route(method, d, OwnerOf(slots, fallback, d), Asked, forwarded,
                          [c \in Asked |-> FilterResult(c, method)],
                          Trackers(tracked, d), Trackers(tracked, d),
                          forwarded \cap Trackers(tracked, d))
    /\ UNCHANGED <<clients, slots, microtasks, calls, now, crashLog, notices, failureMessageShown,
                   platformSupported, multiRoot, activeClient, fallback, activated, openDocs,
                   tracked, inflight>>

\* The server of session c answers the request it was forwarded.
Respond(c) ==
    /\ microtasks = <<>>
    /\ c \in inflight
    /\ clients[c].transport = "running"
    /\ inflight' = inflight \ {c}
    /\ UNCHANGED <<clients, slots, microtasks, calls, now, crashLog, notices, failureMessageShown,
                   platformSupported, multiRoot, activeClient, fallback, activated, openDocs,
                   tracked, routed>>

\* Mutant: didOpen is accepted by the active session.
AcceptsOpenIfActive(c, d) == activeClient = c

\* Mutant: didOpen is accepted by every session.
AcceptsOpenAlways(c, d) == TRUE

\* didOpen: clients.checkOwnership(me, document)
AcceptsOpen(c, d) == CheckOwnership(c, d)

\* didClose: clients.ActiveClient === me
AcceptsClose(c, d) == activeClient = c

\* The editor opens document d: didOpen of every filter.
DidOpen(d) ==
    /\ microtasks = <<>>
    /\ d \notin openDocs
    /\ LET accepted == {c \in Asked : AcceptsOpen(c, d)}
           after == tracked \cup {<<c, d>> : c \in accepted}
       IN /\ tracked' = after
          /\ routed' = Route("didOpen", d, OwnerOf(slots, fallback, d), Asked, accepted,
                             [c \in Asked |-> IF c \in accepted THEN "sendMessage" ELSE "undefined"],
                             Trackers(tracked, d), Trackers(after, d),
                             accepted \cap Trackers(after, d))
    /\ openDocs' = openDocs \cup {d}
    /\ UNCHANGED <<clients, slots, microtasks, calls, now, crashLog, notices, failureMessageShown,
                   platformSupported, multiRoot, activeClient, fallback, activated, inflight>>

\* The editor closes document d: didClose of every filter. console.assert
\* only logs when the session does not track the document.
DidClose(d) ==
    /\ microtasks = <<>>
    /\ d \in openDocs
    /\ LET accepted == {c \in Asked : AcceptsClose(c, d)}
           after == tracked \ {<<c, d>> : c \in accepted}
       IN /\ tracked' = after
          /\ routed' = Route("didClose", d, OwnerOf(slots, fallback, d), Asked, accepted,
                             [c \in Asked |-> IF c \notin accepted THEN "undefined"
                                              ELSE IF <<c, d>> \in tracked THEN "sendMessage"
                                              ELSE "assertion failed, sendMessage"],
                             Trackers(tracked, d), Trackers(after, d), {})
    /\ openDocs' = openDocs \ {d}
    /\ UNCHANGED <<clients, slots, microtasks, calls, now, crashLog, notices, failureMessageShown,
                   platformSupported, multiRoot, activeClient, fallback, activated, inflight>>

\* What routed says of a DidOpenNotification session c transmits for d
\* outside the filter: the tracked sets are tr at the transmission and
\* after when the handler returns.
OpenSent(c, d, tr, after) ==
    Route("takeOwnership", d, OwnerOf(slots, fallback, d), {c}, {c}, [x \in {c} |-> "sendNotification"],
          Trackers(tr, d), Trackers(after, d), {c} \cap Trackers(tr, d))

\* The registry hands an open document to the session that owns it.
TakeOwnership(c, d) ==
    /\ microtasks = <<>>
    /\ d \in openDocs
    /\ CheckOwnership(c, d)
    /\ c \in Live
    /\ ~clients[c].disposed
    /\ <<c, d>> \notin tracked
    /\ Commit(TakenOwnership(Gate, c, d))
    /\ routed' = IF clients[c].languageClient
                 THEN OpenSent(c, d, tracked, tracked \cup {<<c, d>>})
                 ELSE routed
    /\ UNCHANGED <<slots, now, crashLog, notices, failureMessageShown, platformSupported,
                   multiRoot, activeClient, fallback, openDocs, inflight>>

\* One promise reaction, with the record of a deferred DidOpenNotification.
RunReaction ==
    /\ RunMicrotask
    /\ LET job == Head(microtasks)
           kind == calls[job.call].kind
       IN routed' = IF kind \in Docs /\ ContinuationFate(job.client, kind) = "transmitted"
                    THEN OpenSent(job.client, kind, tracked, tracked)
                    ELSE routed
    /\ UNCHANGED <<activeClient, fallback, activated, openDocs, tracked, inflight>>

\* The close handler with what replace does to the registry: the documents
\* of the replaced session go to the new one, and the new one is active if
\* the replaced one was.
ClosedInRegistry(c, d) ==
    /\ microtasks = <<>>
    /\ clients[c].transport \in {"starting", "running"}
    /\ LET t == now + d
           f == clients[c].folder
           stop == Stops(c, t)
           transfer == TransferCrashRecord(stop)
           new == IF transfer THEN Len(clients) + 1 ELSE NullClient
           disposed == [Gate EXCEPT !.clients = AfterClosed(c, t), !.activated = ModelAfterDispose(@, c)]
           moved == IF transfer THEN Transferred(disposed, c, new, DocOrder) ELSE disposed
       IN /\ now' = t
          /\ crashLog' = [crashLog EXCEPT ![f] = Append(@, t)]
          /\ slots' = ReplaceSlots(c, transfer)
          /\ notices' = IF stop THEN Append(notices, CrashNotice(f)) ELSE notices
          /\ Commit(IF activeClient = c THEN Activated(moved, new) ELSE moved)
          /\ activeClient' = IF activeClient = c THEN new ELSE activeClient
    /\ inflight' = inflight \ {c}
    /\ UNCHANGED <<failureMessageShown, platformSupported, multiRoot, fallback, openDocs, routed>>

\* ownerOf(d), asked of a registry that holds a session.
OwnerQuery(d) ==
    /\ microtasks = <<>>
    /\ fallback # NoFolder
    /\ routed' = Route("ownerOf", d, OwnerOf(slots, fallback, d), {}, {}, <<>>, {}, {}, {})
    /\ UNCHANGED <<clients, slots, microtasks, calls, now, crashLog, notices, failureMessageShown,
                   platformSupported, multiRoot, activeClient, fallback, activated, openDocs,
                   tracked, inflight>>

(***************************************************************************)
(* The session's own surface: timer ticks, activation, status, disposal    *)
(***************************************************************************)

\* Mutant: the tick is sent without looking at this.languageClient.
IntervalBranchAlways(c) == "now"

\* onInterval(): the tick is sent if this.languageClient and
\* this.configuration are set, which the ready callback does together, and
\* is discarded otherwise.
IntervalBranch(c) == IF clients[c].languageClient THEN "now" ELSE "discard"

\* onInterval() on a session whose transport has not stopped.
OnInterval(c) ==
    /\ microtasks = <<>>
    /\ clients[c].transport \in {"starting", "running"}
    /\ LET k == Len(calls) + 1
       IN IF IntervalBranch(c) = "now"
          THEN /\ clients' = [clients EXCEPT ![c].sent = Append(@, k)]
               /\ calls' = Append(calls, NewCall(c, "onInterval", "transmitted"))
          ELSE /\ calls' = Append(calls, NewCall(c, "onInterval", "discarded"))
               /\ UNCHANGED clients
    /\ UNCHANGED <<slots, microtasks, now, crashLog, notices, failureMessageShown,
                   platformSupported, multiRoot>>

\* activate() called on session c.
ActivateCall(c) ==
    /\ microtasks = <<>>
    /\ ~clients[c].disposed
    /\ Commit(Activated(Gate, c))
    /\ UNCHANGED <<slots, now, crashLog, notices, failureMessageShown, platformSupported,
                   multiRoot, activeClient, fallback, openDocs, inflight, routed>>

\* deactivate() called on session c.
DeactivateCall(c) ==
    /\ microtasks = <<>>
    /\ ~clients[c].disposed
    /\ Commit(Deactivated(Gate, c))
    /\ UNCHANGED <<slots, now, crashLog, notices, failureMessageShown, platformSupported,
                   multiRoot, activeClient, fallback, openDocs, inflight, routed>>

\* Mutant: a write is published whether the field is enabled or not.
PublishedAlways(on, c, key) == TRUE

\* The setter of a model field publishes the value iff the field is enabled.
Published(on, c, key) == <<c, key>> \in on

\* updateStatus(e), the handler of ReportStatusNotification: a status ending
\* in "Indexing..." writes true to model.isTagParsing, one ending in "Ready"
\* writes false. The handler is registered in the ready callback.
UpdateStatus(c, v) ==
    /\ microtasks = <<>>
    /\ clients[c].languageClient
    /\ clients[c].transport = "running"
    /\ isTagParsing' = IF v THEN isTagParsing \cup {c} ELSE isTagParsing \ {c}
    /\ writes' = Append(writes, [client |-> c, value |-> v,
                                 enabled |-> <<c, "isTagParsing">> \in activated,
                                 published |-> Published(activated, c, "isTagParsing")])
    /\ UNCHANGED <<clients, slots, microtasks, calls, now, crashLog, notices,
                   failureMessageShown, platformSupported, multiRoot, routerVars, navigation>>

\* Strings are sequences of characters.
Ellipsis == <<".", ".", ".">>
DefPrefix == <<"<", "d", "e", "f">>

Max(a, b) == IF a >= b THEN a ELSE b
Min(a, b) == IF a <= b THEN a ELSE b

\* String.prototype.startsWith(p)
StartsWith(str, p) == Len(p) <= Len(str) /\ SubSeq(str, 1, Len(p)) = p

\* String.prototype.substring(a, b): an argument below 0 counts as 0, one
\* above the length as the length, and the two are swapped if a > b.
Substring(str, a, b) ==
    LET x == Min(Max(a, 0), Len(str))
        y == Min(Max(b, 0), Len(str))
    IN SubSeq(str, Min(x, y) + 1, Max(x, y))

\* The text navigate() stores for a report that does not start with "<def".
Shortened(report, maxLength) ==
    IF Len(report) > maxLength
    THEN Substring(report, 0, maxLength - 3) \o Ellipsis
    ELSE report

\* model.navigationLocation is constructed holding "".
NoNavigation == [event |-> "none", text |-> <<>>]

\* navigate(payload), the handler of ReportNavigationNotification, with the
\* navigationLength setting read at that moment.
Navigate(report, maxLength) ==
    /\ navigation' = [event |-> "navigate", report |-> report, maxLength |-> maxLength,
                      before |-> navigation.text,
                      text |-> IF StartsWith(report, DefPrefix) THEN navigation.text
                               ELSE Shortened(report, maxLength)]
    /\ UNCHANGED <<clients, slots, microtasks, calls, now, crashLog, notices,
                   failureMessageShown, platformSupported, multiRoot, routerVars,
                   isTagParsing, writes>>

\* The tracked documents after dispose() on c: dispose() stops the language
\* client, disposes the disposables and the model, and leaves
\* this.trackedDocuments as it is.
TrackedAfterDispose(tr, c) == tr

\* dispose() called on session c, with its model and its documents.
DisposeSession(c) ==
    /\ Dispose(c)
    /\ activated' = ModelAfterDispose(activated, c)
    /\ tracked' = TrackedAfterDispose(tracked, c)
    /\ UNCHANGED <<activeClient, fallback, openDocs, inflight, routed>>

\* onConfigurationsChanged(configurations): the handler the ready callback
\* registers on this.configuration, which it has just constructed. It sends
\* ChangeFolderSettingsNotification through the gate.
OnConfigurationsChanged(c) ==
    /\ clients[c].languageClient
    /\ clients[c].transport = "running"
    /\ NotifyWhenReady(c, "changeFolderSettings")

(***************************************************************************)
(* PackageManager: the chain over the packages                             *)
(***************************************************************************)

\* No chain has been built.
NoChain == [op |-> "none"]

\* The packages GetPackages() yields, in manifest order.
PackageList == <<1, 2>>
Packages == {PackageList[i] : i \in 1..Len(PackageList)}

\* BuildPromiseChain(items, promiseBuilder) has returned: no item is started.
NewChain(op) == [op |-> op, next |-> 1, started |-> <<>>, resolved |-> {},
                 state |-> "pending", error |-> "none"]

InProgress == {PackageList[i] : i \in 1..Len(chain.started)} \ chain.resolved

\* Mutant: the builder of an item is called without waiting, as Promise.all would.
ChainReadyAlways == chain.state = "pending"

\* promiseChain.then(() => promiseBuilder(item)): the builder of an item is
\* called when the promise of the item before it has resolved.
ChainReady == chain.state = "pending" /\ InProgress = {}

\* The chain after the promise of item i resolved: it resolves with the
\* promise of the last item.
ChainAfterResolve(ch, i) ==
    LET done == ch.resolved \cup {i}
    IN [ch EXCEPT !.resolved = done,
                  !.state = IF ch.state = "pending" /\ done = Packages THEN "resolved" ELSE @]

\* Mutant: a rejected item is passed over.
ChainAfterRejectIgnored(ch, i, error) ==
    LET done == ch.resolved \cup {i}
    IN [ch EXCEPT !.resolved = done,
                  !.state = IF ch.state = "pending" /\ done = Packages THEN "resolved" ELSE @]

\* The chain after the promise of item i rejected with error: no then() of
\* the chain has a rejection handler, so the chain rejects with it.
ChainAfterReject(ch, i, error) ==
    [ch EXCEPT !.state = IF @ = "pending" THEN "rejected" ELSE @,
               !.error = IF ch.state = "pending" THEN error ELSE @]

(***************************************************************************)
(* PackageManager.DownloadPackage and DownloadFile                         *)
(***************************************************************************)

\* The nested catch handlers of DownloadPackage retry 5 times.
Retries == 5

PackageUrl == "u0"
Urls == {"u0", "u1"}

\* Mutant: the delay is 2^delay seconds throughout.
SecondsDelayPlain(delay) == 2 ^ delay

\* secondsDelay = Math.pow(2, delay), with 1 replaced by 0.
SecondsDelay(delay) == IF 2 ^ delay = 1 THEN 0 ELSE 2 ^ delay

NoError == [attempt |-> 0, kind |-> "none"]

\* DownloadPackage has not been called for the package.
NoDownload == [phase |-> "notStarted", attempt |-> 0, hop |-> FALSE, delay |-> 0,
               url |-> PackageUrl, retryCount |-> 0, lastError |-> NoError,
               waited |-> <<>>, body |-> <<>>, error |-> NoError]

\* DownloadFile(urlString, pkg, delay) has been called and has set its timer.
DownloadFile(d, urlString, delay, hop) ==
    [d EXCEPT !.phase = "waiting", !.url = urlString, !.delay = delay, !.hop = hop,
              !.body = <<>>]

\* The download of package i has resolved: " Done!", and the telemetry if a
\* retry was needed. No DownloadFile call is left.
Succeeded(i) ==
    /\ dl' = [dl EXCEPT ![i].phase = "resolved", ![i].url = PackageUrl,
                        ![i].hop = FALSE, ![i].delay = 0]
    /\ telemetry' = IF dl[i].retryCount # 0
                    THEN Append(telemetry, [package |-> i, success |-> dl[i].retryCount,
                                            error |-> dl[i].lastError])
                    ELSE telemetry
    /\ chain' = ChainAfterResolve(chain, i)

\* A catch handler is left for the attempt that failed.
RetriesLeft(d) == d.attempt <= Retries

\* The DownloadFile promise of the current attempt of package i rejected:
\* the catch handler of that attempt notes the failure and tries again, and
\* the last attempt has none.
Failed_(i, kind) ==
    LET k == dl[i].attempt
        err == [attempt |-> k, kind |-> kind]
    IN IF RetriesLeft(dl[i])
       THEN /\ dl' = [dl EXCEPT ![i] = DownloadFile([@ EXCEPT !.retryCount = k,
                                                              !.lastError = err,
                                                              !.attempt = k + 1],
                                                     PackageUrl, k, FALSE)]
            /\ UNCHANGED chain
       ELSE /\ dl' = [dl EXCEPT ![i].phase = "rejected", ![i].error = err,
                               ![i].url = PackageUrl, ![i].hop = FALSE, ![i].delay = 0]
            /\ chain' = ChainAfterReject(chain, i, err)

\* DownloadPackages(): the chain over the packages, with DownloadPackage as
\* the builder.
DownloadPackages ==
    /\ chain = NoChain
    /\ chain' = NewChain("download")
    /\ dl' = [i \in Packages |-> NoDownload]
    /\ files' = [i \in Packages |-> <<>>]
    /\ UNCHANGED <<telemetry, install, sessionVars>>

\* The chain calls DownloadPackage for the next package: tmp.file() gives
\* the temporary file or an error, and with the file the first DownloadFile
\* is called.
StartDownload(ok) ==
    /\ chain.op = "download"
    /\ ChainReady
    /\ chain.next <= Len(PackageList)
    /\ LET i == PackageList[chain.next]
           ch == [chain EXCEPT !.next = @ + 1, !.started = Append(@, i)]
           err == [attempt |-> 0, kind |-> "tmp.file"]
       IN IF ok
          THEN /\ dl' = [dl EXCEPT ![i] = DownloadFile([@ EXCEPT !.attempt = 1], PackageUrl, 0, FALSE)]
               /\ chain' = ch
          ELSE /\ dl' = [dl EXCEPT ![i].phase = "rejected", ![i].error = err]
               /\ chain' = ChainAfterReject(ch, i, err)
    /\ UNCHANGED <<files, telemetry, install, sessionVars>>

\* The timer of DownloadFile fires: the request is made.
TimerFires(i) ==
    /\ dl[i].phase = "waiting"
    /\ dl' = [dl EXCEPT ![i].phase = "requesting",
                        ![i].waited = IF dl[i].hop THEN @ ELSE Append(@, SecondsDelay(dl[i].delay))]
    /\ UNCHANGED <<chain, files, telemetry, install, sessionVars>>

\* request.on('error')
RequestError(i) ==
    /\ dl[i].phase = "requesting"
    /\ Failed_(i, "request")
    /\ UNCHANGED <<files, telemetry, install, sessionVars>>

\* handleHttpResponse with status 301 or 302: the promise of this
\* DownloadFile is resolved with that of a DownloadFile for the new
\* location, with delay 0.
Redirect(i, location) ==
    /\ dl[i].phase = "requesting"
    /\ dl' = [dl EXCEPT ![i] = DownloadFile(@, location, 0, TRUE)]
    /\ UNCHANGED <<chain, files, telemetry, install, sessionVars>>

\* handleHttpResponse with a status other than 200, 301, 302.
ResponseStatusError(i) ==
    /\ dl[i].phase = "requesting"
    /\ Failed_(i, "status")
    /\ UNCHANGED <<files, telemetry, install, sessionVars>>

\* handleHttpResponse with status 200: a write stream is made on the file
\* descriptor of the temporary file and the response is piped to it.
ResponseOk(i) ==
    /\ dl[i].phase = "requesting"
    /\ dl' = [dl EXCEPT ![i].phase = "receiving", ![i].body = <<>>]
    /\ UNCHANGED <<chain, files, telemetry, install, sessionVars>>

\* The write stream was made with the file descriptor only, so it writes
\* where the descriptor stands: after everything written through it before.
FileAfterData(file, body, chunk) == Append(file, chunk)

\* response.on('data'): a part of the body arrives and is piped to the file.
Data(i) ==
    /\ dl[i].phase = "receiving"
    /\ LET chunk == [attempt |-> dl[i].attempt, part |-> Len(dl[i].body) + 1]
       IN /\ files' = [files EXCEPT ![i] = FileAfterData(@, dl[i].body, chunk)]
          /\ dl' = [dl EXCEPT ![i].body = Append(@, chunk)]
    /\ UNCHANGED <<chain, telemetry, install, sessionVars>>

\* response.on('end'): the promise of DownloadFile resolves.
End(i) ==
    /\ dl[i].phase = "receiving"
    /\ Succeeded(i)
    /\ UNCHANGED <<files, install, sessionVars>>

\* response.on('error')
ResponseError(i) ==
    /\ dl[i].phase = "receiving"
    /\ Failed_(i, "response")
    /\ UNCHANGED <<files, telemetry, install, sessionVars>>

(***************************************************************************)
(* PackageManager.InstallPackage                                           *)
(***************************************************************************)

Slash == "/"

\* The file names an entry of an archive can have: a directory and two files.
EntryNames == {<<"d", Slash>>, <<"f">>, <<"g">>}

\* entry.fileName.endsWith("/")
EndsWith(str, ch) == Len(str) > 0 /\ str[Len(str)] = ch

FileNames == {name \in EntryNames : ~EndsWith(name, Slash)}

\* An archive yields at most this many entries.
MaxEntries == 2

\* InstallPackage has not been called for the package. reading: readEntry()
\* has been called and the archive has not answered it; work: the entries
\* the 'entry' handler was called with, and where each stands.
NoInstall == [phase |-> "notStarted", reading |-> FALSE, work |-> <<>>,
              removed |-> FALSE, error |-> NoError]

\* util.checkFileExists(path): whether a file is at the path.
Exists(disk, name) == name \in disk

\* Mutant: every file entry is extracted.
ExtractsAlways(exists) == TRUE

\* if (!exists): the entry is extracted; else it is skipped with a warning.
Extracts(exists) == ~exists

Unfinished(p) == {k \in 1..Len(p.work) : p.work[k].phase \notin {"done", "failed"}}

\* InstallPackages(): the chain over the packages, with InstallPackage as
\* the builder. disk: the files in the extension's folder.
InstallPackages(disk) ==
    /\ chain = NoChain
    /\ chain' = NewChain("install")
    /\ install' = [pkg |-> [i \in Packages |-> NoInstall], disk |-> disk, overwritten |-> {}]
    /\ UNCHANGED <<dl, files, telemetry, sessionVars>>

\* reject(...) of the promise of InstallPackage for package i, where the
\* package is to become p otherwise: a settled promise stays as it is.
Rejected_(i, p, kind) ==
    LET err == [attempt |-> 0, kind |-> kind]
    IN IF p.phase \in {"opening", "extracting"}
       THEN /\ install' = [install EXCEPT !.pkg[i] = [p EXCEPT !.phase = "rejected", !.error = err]]
            /\ chain' = ChainAfterReject(chain, i, err)
       ELSE /\ install' = [install EXCEPT !.pkg[i] = p]
            /\ UNCHANGED chain

\* The chain calls InstallPackage for the next package: without the
\* temporary file the promise rejects, with it the archive is opened.
StartInstall(hasFile) ==
    /\ chain.op = "install"
    /\ ChainReady
    /\ chain.next <= Len(PackageList)
    /\ LET i == PackageList[chain.next]
           ch == [chain EXCEPT !.next = @ + 1, !.started = Append(@, i)]
           err == [attempt |-> 0, kind |-> "Downloaded file unavailable"]
       IN IF hasFile
          THEN /\ install' = [install EXCEPT !.pkg[i].phase = "opening"]
               /\ chain' = ch
          ELSE /\ install' = [install EXCEPT !.pkg[i].phase = "rejected", !.pkg[i].error = err]
               /\ chain' = ChainAfterReject(ch, i, err)
    /\ UNCHANGED <<dl, files, telemetry, sessionVars>>

\* The callback of yauzl.fromFd: an error rejects, an archive is asked for
\* its first entry.
ZipOpened(i, ok) ==
    /\ install.pkg[i].phase = "opening"
    /\ IF ok
       THEN /\ install' = [install EXCEPT !.pkg[i].phase = "extracting",
                                          !.pkg[i].reading = TRUE]
            /\ UNCHANGED chain
       ELSE Rejected_(i, install.pkg[i], "Zip file error")
    /\ UNCHANGED <<dl, files, telemetry, sessionVars>>

\* zipfile.on('entry'): the archive answers readEntry() with its next entry.
\* A directory is created, a file is looked for on the disk.
Entry(i, name) ==
    /\ install.pkg[i].reading
    /\ Len(install.pkg[i].work) < MaxEntries
    /\ install' = [install EXCEPT
                     !.pkg[i].reading = FALSE,
                     !.pkg[i].work = Append(@, [name |-> name,
                                                phase |-> IF EndsWith(name, Slash)
                                                          THEN "mkdirp" ELSE "checkFileExists",
                                                extracted |-> FALSE])]
    /\ UNCHANGED <<chain, dl, files, telemetry, sessionVars>>

\* zipfile.on('end'): the archive answers readEntry() with no entry left,
\* and the promise resolves; its then() is still to run.
ZipEnd(i) ==
    /\ install.pkg[i].reading
    /\ install' = [install EXCEPT
                     !.pkg[i].reading = FALSE,
                     !.pkg[i].phase = IF @ = "extracting" THEN "extracted" ELSE @]
    /\ UNCHANGED <<chain, dl, files, telemetry, sessionVars>>

\* zipfile.on('error'): the archive fails instead of answering readEntry().
ZipError(i) ==
    /\ install.pkg[i].reading
    /\ Rejected_(i, [install.pkg[i] EXCEPT !.reading = FALSE], "Zip File Error")
    /\ UNCHANGED <<dl, files, telemetry, sessionVars>>

\* then(() => pkg.tmpFile.removeCallback()): the temporary file is removed
\* and the promise InstallPackage returned resolves.
Cleanup(i) ==
    /\ install.pkg[i].phase = "extracted"
    /\ install' = [install EXCEPT !.pkg[i].phase = "resolved", !.pkg[i].removed = TRUE]
    /\ chain' = ChainAfterResolve(chain, i)
    /\ UNCHANGED <<dl, files, telemetry, sessionVars>>

\* The callback of mkdirp for a directory entry: an error rejects, else the
\* next entry is asked for.
DirectoryMade(i, k, ok) ==
    /\ k \in 1..Len(install.pkg[i].work)
    /\ install.pkg[i].work[k].phase = "mkdirp"
    /\ IF ok
       THEN /\ install' = [install EXCEPT !.pkg[i].work[k].phase = "done",
                                          !.pkg[i].reading = TRUE]
            /\ UNCHANGED chain
       ELSE Rejected_(i, [install.pkg[i] EXCEPT !.work[k].phase = "failed"],
                      "Error creating directory")
    /\ UNCHANGED <<dl, files, telemetry, sessionVars>>

\* The then() of util.checkFileExists: a file that is not there is opened
\* in the archive, one that is there is skipped and the next entry asked for.
FileChecked(i, k) ==
    /\ k \in 1..Len(install.pkg[i].work)
    /\ install.pkg[i].work[k].phase = "checkFileExists"
    /\ install' = IF Extracts(Exists(install.disk, install.pkg[i].work[k].name))
                  THEN [install EXCEPT !.pkg[i].work[k].phase = "openReadStream"]
                  ELSE [install EXCEPT !.pkg[i].work[k].phase = "done",
                                       !.pkg[i].reading = TRUE]
    /\ UNCHANGED <<chain, dl, files, telemetry, sessionVars>>

\* The callback of zipfile.openReadStream: an error rejects, else the
\* directory of the file is made.
ReadStreamOpened(i, k, ok) ==
    /\ k \in 1..Len(install.pkg[i].work)
    /\ install.pkg[i].work[k].phase = "openReadStream"
    /\ IF ok
       THEN /\ install' = [install EXCEPT !.pkg[i].work[k].phase = "mkdirpDirname"]
            /\ UNCHANGED chain
       ELSE Rejected_(i, [install.pkg[i] EXCEPT !.work[k].phase = "failed"],
                      "Error reading zip stream")
    /\ UNCHANGED <<dl, files, telemetry, sessionVars>>

\* The callback of mkdirp for the directory of a file: an error rejects,
\* else fs.createWriteStream makes the file, over the one that is there if
\* there is one, and the entry is piped to it.
DirnameMade(i, k, ok) ==
    /\ k \in 1..Len(install.pkg[i].work)
    /\ install.pkg[i].work[k].phase = "mkdirpDirname"
    /\ LET name == install.pkg[i].work[k].name
       IN IF ok
          THEN /\ install' = [install EXCEPT
                                !.pkg[i].work[k].phase = "writing",
                                !.pkg[i].work[k].extracted = TRUE,
                                !.disk = @ \cup {name},
                                !.overwritten = IF name \in install.disk
                                                THEN @ \cup {name} ELSE @]
               /\ UNCHANGED chain
          ELSE Rejected_(i, [install.pkg[i] EXCEPT !.work[k].phase = "failed"],
                         "Error creating directory")
    /\ UNCHANGED <<dl, files, telemetry, sessionVars>>

\* writeStream.on('close'): the next entry is asked for.
WriteStreamClosed(i, k) ==
    /\ k \in 1..Len(install.pkg[i].work)
    /\ install.pkg[i].work[k].phase = "writing"
    /\ install' = [install EXCEPT !.pkg[i].work[k].phase = "done",
                                  !.pkg[i].reading = TRUE]
    /\ UNCHANGED <<chain, dl, files, telemetry, sessionVars>>

(***************************************************************************)
(* Specifications                                                          *)
(***************************************************************************)

InitCommon ==
    /\ clients = <<>>
    /\ slots = [f \in Folders |-> Unregistered]
    /\ microtasks = <<>>
    /\ calls = <<>>
    /\ now = 0
    /\ crashLog = [f \in Folders |-> <<>>]
    /\ notices = <<>>
    /\ activeClient = Unregistered
    /\ fallback = NoFolder
    /\ activated = {}
    /\ openDocs = {}
    /\ tracked = {}
    /\ inflight = {}
    /\ routed = NoRoute
    /\ isTagParsing = {}
    /\ writes = <<>>
    /\ navigation = NoNavigation
    /\ chain = NoChain
    /\ dl = <<>>
    /\ files = <<>>
    /\ telemetry = <<>>
    /\ install = <<>>

\* Sessions, gated calls, readiness, failures, crashes and disposal.
Init ==
    /\ InitCommon
    /\ failureMessageShown \in BOOLEAN
    /\ platformSupported \in BOOLEAN
    /\ multiRoot = FALSE

Next ==
    \/ \E f \in GateFolders : Len(clients) < MaxClients /\ CreateClient(f) /\ UNCHANGED routerVars /\ UNCHANGED modelVars /\ UNCHANGED packageVars
    \/ \E c \in Live : OnReadyFulfilled(c) /\ UNCHANGED routerVars /\ UNCHANGED modelVars /\ UNCHANGED packageVars
    \/ \E c \in Live : OnReadyRejected(c) /\ UNCHANGED routerVars /\ UNCHANGED modelVars /\ UNCHANGED packageVars
    \/ \E c \in Live, kind \in Requests : Len(calls) < MaxCalls /\ RequestWhenReady(c, kind) /\ UNCHANGED routerVars /\ UNCHANGED modelVars /\ UNCHANGED packageVars
    \/ \E c \in Live, kind \in Notifications : Len(calls) < MaxCalls /\ NotifyWhenReady(c, kind) /\ UNCHANGED routerVars /\ UNCHANGED modelVars /\ UNCHANGED packageVars
    \/ RunMicrotask /\ UNCHANGED routerVars /\ UNCHANGED modelVars /\ UNCHANGED packageVars
    \/ \E c \in Live : TransportError(c) /\ UNCHANGED routerVars /\ UNCHANGED modelVars /\ UNCHANGED packageVars
    \/ \E c \in Live : Dispose(c) /\ UNCHANGED routerVars /\ UNCHANGED modelVars /\ UNCHANGED packageVars
    \/ \E c \in Live, d \in GateDeltas : Len(clients) < MaxClients /\ Closed(c, d) /\ UNCHANGED routerVars /\ UNCHANGED modelVars /\ UNCHANGED packageVars

Spec == Init /\ [][Next]_vars

\* One folder crashing again and again, with the clock advancing in between.
InitCrash ==
    /\ InitCommon
    /\ failureMessageShown = FALSE
    /\ platformSupported = TRUE
    /\ multiRoot \in BOOLEAN

NextCrash ==
    \/ \E f \in CrashFolders : CreateClient(f) /\ UNCHANGED routerVars /\ UNCHANGED modelVars /\ UNCHANGED packageVars
    \/ \E c \in Live : OnReadyFulfilled(c) /\ UNCHANGED routerVars /\ UNCHANGED modelVars /\ UNCHANGED packageVars
    \/ \E c \in Live, d \in Deltas : Len(clients) < MaxCrashSessions /\ Closed(c, d) /\ UNCHANGED routerVars /\ UNCHANGED modelVars /\ UNCHANGED packageVars

SpecCrash == InitCrash /\ [][NextCrash]_vars

\* One folder crashing in a burst, with calls still made on its sessions.
NextStopped ==
    \/ \E f \in CrashFolders : CreateClient(f) /\ UNCHANGED routerVars /\ UNCHANGED modelVars /\ UNCHANGED packageVars
    \/ \E c \in Live : OnReadyFulfilled(c) /\ UNCHANGED routerVars /\ UNCHANGED modelVars /\ UNCHANGED packageVars
    \/ \E c \in Live, d \in BurstDeltas : Len(clients) < MaxCrashSessions /\ Closed(c, d) /\ UNCHANGED routerVars /\ UNCHANGED modelVars /\ UNCHANGED packageVars
    \/ \E c \in Live, kind \in Requests : Len(calls) < MaxCalls /\ RequestWhenReady(c, kind) /\ UNCHANGED routerVars /\ UNCHANGED modelVars /\ UNCHANGED packageVars
    \/ \E c \in Live, kind \in Notifications : Len(calls) < MaxCalls /\ NotifyWhenReady(c, kind) /\ UNCHANGED routerVars /\ UNCHANGED modelVars /\ UNCHANGED packageVars
    \/ RunMicrotask /\ UNCHANGED routerVars /\ UNCHANGED modelVars /\ UNCHANGED packageVars

SpecStopped == InitCrash /\ [][NextStopped]_vars

\* Two sessions, "a" and "b" inside it, with focus changes, crashes and the
\* editor's calls. The folders are registered before the first editor event.
InitRouter ==
    /\ InitCommon
    /\ failureMessageShown = FALSE
    /\ platformSupported = TRUE
    /\ multiRoot = TRUE

NextRouter ==
    \/ \E f \in Folders : routed = NoRoute /\ Register(f) /\ UNCHANGED modelVars /\ UNCHANGED packageVars
    \/ \E c \in Live : OnReadyFulfilled(c) /\ UNCHANGED routerVars /\ UNCHANGED modelVars /\ UNCHANGED packageVars
    \/ RunReaction /\ UNCHANGED modelVars /\ UNCHANGED packageVars
    \/ \E t \in Registered : Len(calls) < MaxRouterCalls /\ SetActiveClient(t) /\ UNCHANGED modelVars /\ UNCHANGED packageVars
    \/ \E method \in RoutedMethods : EditorCall(method) /\ UNCHANGED modelVars /\ UNCHANGED packageVars
    \/ \E c \in Live : Respond(c) /\ UNCHANGED modelVars /\ UNCHANGED packageVars
    \/ \E c \in Live, d \in BurstDeltas : Len(clients) < MaxRouterClients /\ ClosedInRegistry(c, d) /\ UNCHANGED modelVars /\ UNCHANGED packageVars

SpecRouter == InitRouter /\ [][NextRouter]_vars

\* The same two sessions, with the documents the editor opens and closes.
NextDocs ==
    \/ \E f \in Folders : routed = NoRoute /\ openDocs = {} /\ Register(f) /\ UNCHANGED modelVars /\ UNCHANGED packageVars
    \/ \E c \in Live : OnReadyFulfilled(c) /\ UNCHANGED routerVars /\ UNCHANGED modelVars /\ UNCHANGED packageVars
    \/ RunReaction /\ UNCHANGED modelVars /\ UNCHANGED packageVars
    \/ \E t \in Registered : Len(calls) < MaxRouterCalls /\ SetActiveClient(t) /\ UNCHANGED modelVars /\ UNCHANGED packageVars
    \/ \E d \in Docs : DidOpen(d) /\ UNCHANGED modelVars /\ UNCHANGED packageVars
    \/ \E d \in Docs : DidClose(d) /\ UNCHANGED modelVars /\ UNCHANGED packageVars
    \/ \E c \in Live, d \in Docs : Len(calls) < MaxRouterCalls /\ TakeOwnership(c, d) /\ UNCHANGED modelVars /\ UNCHANGED packageVars
    \/ \E c \in Live, d \in BurstDeltas : Len(clients) < MaxRouterClients /\ ClosedInRegistry(c, d) /\ UNCHANGED modelVars /\ UNCHANGED packageVars

SpecDocs == InitRouter /\ [][NextDocs]_vars

\* The same, with the edits and saves of the open documents.
NextEdits ==
    \/ NextDocs
    \/ \E method \in DocMethods, d \in Docs : DocEvent(method, d) /\ UNCHANGED modelVars /\ UNCHANGED packageVars

SpecEdits == InitRouter /\ [][NextEdits]_vars

\* The registry alone: folders are registered and ownerOf is asked.
InitOwner ==
    /\ clients = <<>>
    /\ slots = [f \in OwnerFolders |-> Unregistered]
    /\ microtasks = <<>>
    /\ calls = <<>>
    /\ now = 0
    /\ crashLog = [f \in Folders |-> <<>>]
    /\ notices = <<>>
    /\ activeClient = Unregistered
    /\ fallback = NoFolder
    /\ activated = {}
    /\ openDocs = {}
    /\ tracked = {}
    /\ inflight = {}
    /\ routed = NoRoute
    /\ isTagParsing = {}
    /\ writes = <<>>
    /\ navigation = NoNavigation
    /\ chain = NoChain
    /\ dl = <<>>
    /\ files = <<>>
    /\ telemetry = <<>>
    /\ install = <<>>
    /\ failureMessageShown = FALSE
    /\ platformSupported = TRUE
    /\ multiRoot = TRUE

NextOwner ==
    \/ \E f \in OwnerFolders : Register(f) /\ UNCHANGED modelVars /\ UNCHANGED packageVars
    \/ \E d \in OwnerDocs : OwnerQuery(d) /\ UNCHANGED modelVars /\ UNCHANGED packageVars

SpecOwner == InitOwner /\ [][NextOwner]_vars

\* Two registered sessions, the first of them activated by the registry,
\* with the timer, activation and status updates.
MaxSessionCalls == 3     \* gated calls and ticks after which SpecSession makes no more
MaxWrites == 2           \* writes to model.isTagParsing in a run of SpecSession

NextSession ==
    \/ \E f \in Folders : Register(f) /\ UNCHANGED modelVars /\ UNCHANGED packageVars
    \/ \E c \in Live : OnReadyFulfilled(c) /\ UNCHANGED routerVars /\ UNCHANGED modelVars /\ UNCHANGED packageVars
    \/ \E c \in Live : OnReadyRejected(c) /\ UNCHANGED routerVars /\ UNCHANGED modelVars /\ UNCHANGED packageVars
    \/ RunReaction /\ UNCHANGED modelVars /\ UNCHANGED packageVars
    \/ \E c \in Live : Len(calls) < MaxSessionCalls /\ OnInterval(c) /\ UNCHANGED routerVars /\ UNCHANGED modelVars /\ UNCHANGED packageVars
    \/ \E c \in Live : Len(calls) < MaxSessionCalls /\ ActivateCall(c) /\ UNCHANGED modelVars /\ UNCHANGED packageVars
    \/ \E c \in Live : Len(calls) < MaxSessionCalls /\ DeactivateCall(c) /\ UNCHANGED modelVars /\ UNCHANGED packageVars
    \/ \E c \in Live, v \in BOOLEAN : Len(writes) < MaxWrites /\ UpdateStatus(c, v) /\ UNCHANGED packageVars

SpecSession == InitRouter /\ [][NextSession]_vars

\* DownloadPackages() over two packages, with every outcome of every request.
MaxFileParts == 2        \* parts of response bodies written to one temporary file in SpecDownload

NextDownload ==
    \/ DownloadPackages
    \/ \E ok \in BOOLEAN : StartDownload(ok)
    \/ \E i \in DOMAIN dl : TimerFires(i)
    \/ \E i \in DOMAIN dl : RequestError(i)
    \/ \E i \in DOMAIN dl, location \in Urls : Redirect(i, location)
    \/ \E i \in DOMAIN dl : ResponseStatusError(i)
    \/ \E i \in DOMAIN dl : ResponseOk(i)
    \/ \E i \in DOMAIN dl : Len(files[i]) < MaxFileParts /\ Data(i)
    \/ \E i \in DOMAIN dl : End(i)
    \/ \E i \in DOMAIN dl : ResponseError(i)

SpecDownload == InitRouter /\ [][NextDownload]_vars

\* The request of package i is answered: with an error, a redirect, a
\* status that is an error, or status 200.
Answered(i) ==
    \/ RequestError(i)
    \/ \E location \in Urls : Redirect(i, location)
    \/ ResponseStatusError(i)
    \/ ResponseOk(i)

\* The response of package i comes to its end or fails.
Finished(i) == End(i) \/ ResponseError(i)

\* The downloads where the chain goes on, every timer fires, every request
\* is answered and every response comes to an end.
SpecDownloadFair ==
    /\ SpecDownload
    /\ WF_vars(DownloadPackages)
    /\ WF_vars(\E ok \in BOOLEAN : StartDownload(ok))
    /\ \A i \in Packages : /\ WF_vars(i \in DOMAIN dl /\ TimerFires(i))
                           /\ WF_vars(i \in DOMAIN dl /\ Answered(i))
                           /\ WF_vars(i \in DOMAIN dl /\ Finished(i))

\* The installation of the packages: InstallPackages and InstallPackage.
Installing == IF chain.op = "install" THEN Packages ELSE {}
Entries == 1..MaxEntries

NextInstall ==
    \/ \E disk \in SUBSET FileNames : InstallPackages(disk)
    \/ \E hasFile \in BOOLEAN : StartInstall(hasFile)
    \/ \E i \in Installing, ok \in BOOLEAN : ZipOpened(i, ok)
    \/ \E i \in Installing, name \in EntryNames : Entry(i, name)
    \/ \E i \in Installing : ZipEnd(i)
    \/ \E i \in Installing : ZipError(i)
    \/ \E i \in Installing : Cleanup(i)
    \/ \E i \in Installing, k \in Entries, ok \in BOOLEAN : DirectoryMade(i, k, ok)
    \/ \E i \in Installing, k \in Entries : FileChecked(i, k)
    \/ \E i \in Installing, k \in Entries, ok \in BOOLEAN : ReadStreamOpened(i, k, ok)
    \/ \E i \in Installing, k \in Entries, ok \in BOOLEAN : DirnameMade(i, k, ok)
    \/ \E i \in Installing, k \in Entries : WriteStreamClosed(i, k)

SpecInstall == InitRouter /\ [][NextInstall]_vars

\* Navigation reports of every length up to MaxReportLength, plain or
\* starting with "<def", under every setting up to MaxNavigationLength.
MaxReportLength == 6
MaxNavigationLength == 5

RECURSIVE Plain(_)
Plain(n) == IF n = 0 THEN <<>> ELSE Append(Plain(n - 1), "x")

NavigationReports ==
    {Plain(n) : n \in 0..MaxReportLength}
        \cup {DefPrefix \o Plain(n) : n \in 0..MaxReportLength - 4}
        \cup {<<"<", "d", "e">>, <<"x">> \o DefPrefix}

NextNavigate ==
    \E report \in NavigationReports, maxLength \in 0..MaxNavigationLength : Navigate(report, maxLength) /\ UNCHANGED packageVars

SpecNavigate == InitRouter /\ [][NextNavigate]_vars

\* One session with gated calls and the configuration events of a session
\* that is Ready.
MaxConfigCalls == 3      \* gated calls submitted in a run of SpecConfig

NextConfig ==
    \/ \E f \in GateFolders : CreateClient(f) /\ UNCHANGED routerVars /\ UNCHANGED modelVars /\ UNCHANGED packageVars
    \/ \E c \in Live : OnReadyFulfilled(c) /\ UNCHANGED routerVars /\ UNCHANGED modelVars /\ UNCHANGED packageVars
    \/ \E c \in Live : OnReadyRejected(c) /\ UNCHANGED routerVars /\ UNCHANGED modelVars /\ UNCHANGED packageVars
    \/ \E c \in Live, kind \in Requests : Len(calls) < MaxConfigCalls /\ RequestWhenReady(c, kind) /\ UNCHANGED routerVars /\ UNCHANGED modelVars /\ UNCHANGED packageVars
    \/ \E c \in Live, kind \in Notifications : Len(calls) < MaxConfigCalls /\ NotifyWhenReady(c, kind) /\ UNCHANGED routerVars /\ UNCHANGED modelVars /\ UNCHANGED packageVars
    \/ RunMicrotask /\ UNCHANGED routerVars /\ UNCHANGED modelVars /\ UNCHANGED packageVars
    \/ \E c \in Live : Len(calls) < MaxConfigCalls /\ OnConfigurationsChanged(c) /\ UNCHANGED routerVars /\ UNCHANGED modelVars /\ UNCHANGED packageVars

SpecConfig == Init /\ [][NextConfig]_vars

\* The same two sessions, with the documents the editor opens and closes and
\* dispose() called on a session directly.
NextDisposal ==
    \/ \E f \in Folders : Register(f) /\ UNCHANGED modelVars /\ UNCHANGED packageVars
    \/ \E c \in Live : OnReadyFulfilled(c) /\ UNCHANGED routerVars /\ UNCHANGED modelVars /\ UNCHANGED packageVars
    \/ RunReaction /\ UNCHANGED modelVars /\ UNCHANGED packageVars
    \/ \E d \in Docs : DidOpen(d) /\ UNCHANGED modelVars /\ UNCHANGED packageVars
    \/ \E d \in Docs : DidClose(d) /\ UNCHANGED modelVars /\ UNCHANGED packageVars
    \/ \E c \in Live : DisposeSession(c) /\ UNCHANGED modelVars /\ UNCHANGED packageVars

SpecDisposal == InitRouter /\ [][NextDisposal]_vars

(***************************************************************************)
(* Properties of the readiness gate                                        *)
(***************************************************************************)

CallIds == 1..Len(calls)

IsPrefix(s, t) == Len(s) <= Len(t) /\ \A i \in 1..Len(s) : s[i] = t[i]

\* The ids of the calls submitted to c while its gate was Pending, in submission order.
QueuedWhilePending(c) ==
    SelectSeq([k \in CallIds |-> k], LAMBDA k : calls[k].client = c /\ calls[k].gate = "Pending")

\* The calls among them the transport of c was given, in transmission order.
SentOfQueued(c) ==
    SelectSeq(clients[c].sent, LAMBDA k : k # QueryDefaultPaths /\ calls[k].gate = "Pending")

\* No reaction of c is waiting to run.
Drained(c) == \A i \in 1..Len(microtasks) : microtasks[i].client # c

\* The continuation of call k has run (or k never had one).
Settled(k) == calls[k].state # "deferred"

\* C1: the calls submitted to a session while its gate was Pending are
\* transmitted in submission order, none twice and none skipped; once the gate
\* is Ready and its reactions have run, all of them have been transmitted.
C1_QueuedCallsReplayInOrder ==
    \A c \in Live :
        /\ IsPrefix(SentOfQueued(c), QueuedWhilePending(c))
        /\ (Ready(c) /\ Drained(c) => SentOfQueued(c) = QueuedWhilePending(c))

C1_Witness ==
    \E c \in Live :
        /\ Ready(c) /\ Drained(c)
        /\ Len(QueuedWhilePending(c)) >= 2
        /\ \E i, j \in 1..Len(QueuedWhilePending(c)) :
              /\ calls[QueuedWhilePending(c)[i]].kind \in Requests
              /\ calls[QueuedWhilePending(c)[j]].kind \in Notifications
        /\ SentOfQueued(c) = QueuedWhilePending(c)

\* C2: a request queued while the gate was Pending, on a session whose gate
\* then Failed, is rejected with "Unsupported client" and is never given to
\* the transport.
C2_QueuedRequestsRejectedUnsupported ==
    \A k \in CallIds :
        (/\ calls[k].kind \in Requests
         /\ calls[k].gate = "Pending"
         /\ Failed(calls[k].client)
         /\ Settled(k))
        => /\ calls[k].state = "rejected: Unsupported client"
           /\ \A i \in 1..Len(clients[calls[k].client].sent) : clients[calls[k].client].sent[i] # k

\* C3: a request submitted to a session whose gate is Failed is rejected at
\* once with "Unsupported client", and the transport of a Failed session is
\* never given anything.
C3_RequestsAfterFailedReject ==
    /\ \A k \in CallIds :
          (calls[k].kind \in Requests /\ calls[k].gate = "Failed")
          => calls[k].state = "rejected: Unsupported client"
    /\ \A c \in Live : Failed(c) => clients[c].sent = <<>>

C3_Witness ==
    \E k1, k2 \in CallIds :
        /\ k1 < k2
        /\ calls[k1].client = calls[k2].client
        /\ clients[calls[k1].client].onReadyPromise = "fulfilled"
        /\ calls[k1].kind \in Requests /\ calls[k1].gate = "Failed"
        /\ calls[k2].kind \in Requests /\ calls[k2].gate = "Failed"

\* C4: a notification queued while the gate was Pending, on a session whose
\* gate then Failed, is dropped without any error.
C4_QueuedNotificationsDroppedSilently ==
    \A k \in CallIds :
        (/\ calls[k].kind \in Notifications
         /\ calls[k].gate = "Pending"
         /\ Failed(calls[k].client)
         /\ Settled(k))
        => calls[k].state = "dropped"

\* C5: Ready and Failed exclude each other, and a session that is Ready stays
\* Ready and one that is Failed stays Failed; so the gate only ever moves from
\* Pending to Ready or from Pending to Failed.
C5_GateTerminal ==
    [][\A c \in Live :
          /\ ~(Ready(c) /\ Failed(c))
          /\ ~(clients'[c].languageClient /\ ~clients'[c].isSupported)
          /\ (Ready(c) => clients'[c].languageClient)
          /\ (Failed(c) => ~clients'[c].isSupported)]_vars

C5_Witness ==
    \E c1, c2 \in Live :
        /\ Ready(c1) /\ clients[c1].disposed /\ clients[c1].transport = "closed"
        /\ Failed(c2) /\ clients[c2].onReadyPromise = "fulfilled"

\* C10: a session whose transport could be created has started it once, no
\* session has started a transport twice, and every answer to a close is
\* DoNotRestart.
C10_TransportStartedOnce ==
    \A c \in Live :
        /\ clients[c].starts = (IF clients[c].transport = "none" THEN 0 ELSE 1)
        /\ clients[c].closeAction \in {"none", "DoNotRestart"}
        /\ (clients[c].closeAction = "DoNotRestart" => clients[c].transport = "closed")

C10_Witness ==
    \E c \in Live :
        /\ clients[c].closeAction = "DoNotRestart"
        /\ clients[c].errorAction = "Continue"
        /\ clients[c].starts = 1
        /\ \E k \in CallIds : calls[k].client = c
(***************************************************************************)
(* Properties of the crash policy                                          *)
(***************************************************************************)

\* The session whose close handler ran in this step.
Crashed(c) == clients'[c].closeAction # clients[c].closeAction

\* The record of c with the time of this step's crash appended.
Pushed(c) == Append(clients[c].crashTimes, now')

\* This step constructed a session for the folder of c, registered it in the
\* slot of c, and gave it the record r.
ReplacedWith(c, r) ==
    /\ Len(clients') = Len(clients) + 1
    /\ slots[clients[c].folder] = c
    /\ slots' = [slots EXCEPT ![clients[c].folder] = Len(clients')]
    /\ clients'[Len(clients')].folder = clients[c].folder
    /\ clients'[Len(clients')].crashTimes = r
    /\ clients'[Len(clients')].starts = 1

\* The closed transport of c was not started again.
NotRestarted(c) ==
    /\ clients'[c].starts = clients[c].starts
    /\ clients'[c].transport = "closed"

\* C6: a crash that leaves fewer than 5 entries in the record replaces the
\* session by a new session for the same folder whose record is the old one
\* with the new time appended, and does not restart the closed transport.
C6_ReplaceBelowLimit ==
    [][\A c \in Live :
          (Crashed(c) /\ Len(Pushed(c)) < 5)
          => /\ ReplacedWith(c, Pushed(c))
             /\ NotRestarted(c)
             /\ notices' = notices]_vars

C6_Witness ==
    \E c \in Live :
        /\ clients[c].closeAction = "DoNotRestart"
        /\ Len(clients[c].crashTimes) = 3
        /\ slots[clients[c].folder] > c
        /\ clients[slots[clients[c].folder]].crashTimes = clients[c].crashTimes
        /\ clients[slots[clients[c].folder]].transport = "starting"

\* C7: a crash that brings the record to 5 entries, the newest at most
\* 180000 ms after the oldest, ends the folder: no session is constructed, the
\* slot is left without a transport, the notice is shown, and the closed
\* transport is not restarted.
C7_StopWithinWindow ==
    [][\A c \in Live :
          (Crashed(c) /\ Len(Pushed(c)) = 5 /\ Pushed(c)[5] - Pushed(c)[1] <= 180000)
          => /\ Len(clients') = Len(clients)
             /\ slots' = [slots EXCEPT ![clients[c].folder] = NullClient]
             /\ notices' = Append(notices, CrashNotice(clients[c].folder))
             /\ NotRestarted(c)]_vars

\* The record hit the boundary: 5 entries spanning 180000 ms exactly.
C7_Witness ==
    \E f \in Folders :
        /\ slots[f] = NullClient
        /\ Len(crashLog[f]) >= 5
        /\ crashLog[f][Len(crashLog[f])] - crashLog[f][Len(crashLog[f]) - 4] = 180000
        /\ notices # <<>>

\* C8: a crash that brings the record to 5 entries, the newest more than
\* 180000 ms after the oldest, drops the oldest entry only and replaces the
\* session by one that holds the 4 newest entries in order; no notice is shown.
C8_SlideBeyondWindow ==
    [][\A c \in Live :
          (Crashed(c) /\ Len(Pushed(c)) = 5 /\ Pushed(c)[5] - Pushed(c)[1] > 180000)
          => /\ ReplacedWith(c, Tail(Pushed(c)))
             /\ Len(Tail(Pushed(c))) = 4
             /\ NotRestarted(c)
             /\ notices' = notices]_vars

\* The record slid by one: 5 entries spanning 180001 ms.
C8_Witness ==
    \E f \in Folders :
        /\ slots[f] \in Live
        /\ Len(crashLog[f]) >= 5
        /\ crashLog[f][Len(crashLog[f])] - crashLog[f][Len(crashLog[f]) - 4] = 180001
        /\ clients[slots[f]].crashTimes = SubSeq(crashLog[f], Len(crashLog[f]) - 3, Len(crashLog[f]))

\* The i-th crash of the log and the four before it fall within 3 minutes.
Burst(log, i) == i >= 5 /\ log[i] - log[i - 4] <= 180000

Stopped(f) == slots[f] = NullClient

\* C9: a folder is stopped exactly when its last crash closed a burst of 5
\* within 3 minutes, and no earlier crash of a folder closed one.
C9_StoppedIffBurst ==
    \A f \in Folders :
        /\ Stopped(f) <=> Burst(crashLog[f], Len(crashLog[f]))
        /\ \A i \in 1..(Len(crashLog[f]) - 1) : ~Burst(crashLog[f], i)

\* A folder that survived 5 crashes and more, and was stopped by a later burst.
C9_Witness ==
    \E f \in Folders :
        /\ Stopped(f)
        /\ Len(crashLog[f]) >= 7

(***************************************************************************)
(* Properties of a stopped folder                                          *)
(***************************************************************************)

\* The crash policy gave up on folder f: its notice was shown.
PolicyStopped(f) == \E i \in 1..Len(notices) : notices[i] = CrashNotice(f)

\* A transport that was started and has neither closed nor been stopped.
LiveTransport(c) == clients[c].transport \in {"starting", "running"}

\* C11: once the crash policy has stopped a folder, no session of that folder
\* has a live transport, in this state or in any later one, whatever calls
\* are made in between.
C11_StoppedFolderStaysStopped ==
    \A f \in Folders :
        PolicyStopped(f) => /\ \A c \in Live : clients[c].folder = f => ~LiveTransport(c)
                            /\ slots[f] = NullClient

C11_Witness ==
    /\ PolicyStopped("a")
    /\ \E k \in CallIds : calls[k].client = Len(clients) /\ calls[k].state # "deferred"
    /\ Len(clients) = CrashLimit

(***************************************************************************)
(* Properties of the evaluations of the crash policy                       *)
(***************************************************************************)

\* This step is the close handler of session c evaluating the crash policy.
Evaluates(c) ==
    /\ crashLog' # crashLog
    /\ clients[c].transport # "closed"
    /\ clients'[c].transport = "closed" \/ clients'[c].starts # clients[c].starts

\* C12: a session evaluates the crash policy at most once, and never after it
\* was replaced or disposed; the record of a session that has evaluated the
\* policy (and so handed its record on) is not written again.
C12_PolicyEvaluatedOnce ==
    [][\A c \in Live :
          /\ Evaluates(c) => /\ clients[c].closeAction = "none"
                              /\ ~clients[c].disposed
                              /\ slots[clients[c].folder] = c
          /\ clients[c].closeAction # "none" => clients'[c].crashTimes = clients[c].crashTimes]_vars

(***************************************************************************)
(* Properties of the protocol filter                                       *)
(***************************************************************************)

\* C13: a call that is neither didOpen nor didClose is forwarded by the
\* filter of a session iff that session is the active one when the call is
\* made; every other filter transmits nothing and returns null, or an empty
\* list for willSaveWaitUntil; so at most one session forwards the call.
C13_ForwardedIffActive ==
    routed.event \in RoutedMethods =>
        /\ routed.forwarded = {c \in routed.asked : c = routed.active}
        /\ \A c \in routed.asked :
               routed.result[c] = IF c = routed.active THEN "callback"
                                  ELSE IF routed.event = "willSaveWaitUntil" THEN "Promise.resolve([])"
                                  ELSE IF routed.event = "provideHover" THEN "null"
                                  ELSE "undefined"
        /\ Cardinality(routed.forwarded) <= 1

C13_Witness ==
    /\ routed.event = "willSaveWaitUntil"
    /\ Cardinality(routed.asked) = 2
    /\ Cardinality(routed.forwarded) = 1

\* C14: when the active session changes while a hover forwarded to the
\* previous one is in flight, that request stays in flight as long as its
\* transport serves; and a hover is forwarded by the session that is active
\* when it is issued, by no other.
C14_SwitchKeepsInFlight ==
    [][/\ \A s \in inflight :
              activeClient' # activeClient /\ clients'[s].transport = "running" => s \in inflight'
       /\ routed' # routed /\ routed'.event = "provideHover" =>
              /\ routed'.forwarded = {c \in Asked : c = activeClient}
              /\ inflight' = inflight \cup routed'.forwarded]_vars

C14_Witness ==
    /\ routed.event = "provideHover"
    /\ routed.forwarded = {activeClient}
    /\ \E s \in inflight : s # activeClient /\ clients[s].transport = "running"

\* C15: the filter of a session accepts didOpen iff checkOwnership holds for
\* that session and the document: it then tracks the document and transmits;
\* otherwise it tracks nothing, transmits nothing and raises nothing.
C15_OpenAcceptedIffOwner ==
    routed.event = "didOpen" =>
        /\ routed.forwarded = {c \in routed.asked : c = routed.owner}
        /\ routed.after = routed.before \cup routed.forwarded
        /\ \A c \in routed.asked \ routed.forwarded : routed.result[c] = "undefined"

C15_Witness ==
    /\ routed.event = "didOpen"
    /\ Cardinality(routed.asked) = 2
    /\ routed.forwarded = {routed.owner}
    /\ routed.active # routed.owner

\* C16: the filter of a session accepts didClose (removes the document from
\* its tracked set and transmits) iff checkOwnership holds for that session
\* and the document, whichever session is active.
C16_CloseAcceptedIffOwner ==
    routed.event = "didClose" =>
        /\ routed.forwarded = {c \in routed.asked : c = routed.owner}
        /\ routed.after = routed.before \ routed.forwarded

\* C17: whenever a session transmits the opening of a document, through the
\* filter or through takeOwnership, the document is in its tracked set at
\* the moment of the transmission.
C17_TrackedBeforeOpenSent ==
    routed.event \in {"didOpen", "takeOwnership"} => routed.forwarded \subseteq routed.atSend

Matches(d) ==
    {f \in DOMAIN slots : slots[f] # Unregistered /\ PathPrefix(FolderPath[f], DocPath[d])}

\* C19: ownerOf answers the session of the registered folder with the
\* longest path that is a prefix of the document's path, and the session
\* registered first when no registered folder is a prefix: with /a and /a/b
\* registered, /a/b/file.cpp belongs to the session of /a/b and /c/file.cpp
\* to the fallback.
C19_OwnerIsLongestPrefix ==
    fallback # NoFolder =>
        /\ \A d \in OwnerDocs :
               LET owner == OwnerOf(slots, fallback, d)
               IN IF Matches(d) = {} THEN owner = slots[fallback]
                  ELSE \E f \in Matches(d) :
                          /\ owner = slots[f]
                          /\ \A g \in Matches(d) : Len(FolderPath[g]) <= Len(FolderPath[f])
        /\ slots["a"] # Unregistered /\ slots["b"] # Unregistered /\ slots["d"] = Unregistered =>
               /\ OwnerOf(slots, fallback, "/a/b/file.cpp") = slots["b"]
               /\ OwnerOf(slots, fallback, "/c/file.cpp") = slots[fallback]
        /\ routed.event = "ownerOf" => routed.owner \in Registered

C19_Witness ==
    /\ routed.event = "ownerOf"
    /\ routed.doc = "/a/b/file.cpp"
    /\ fallback = "a"
    /\ slots["b"] # Unregistered
    /\ routed.owner = slots["b"]

ReplacedInStep(c) ==
    /\ crashLog' # crashLog
    /\ clients[c].transport # "closed"
    /\ clients'[c].transport = "closed"
    /\ ~Stops(c, now')

Ticks(c) == {k \in CallIds : calls[k].client = c /\ calls[k].kind = "onInterval"}

Occurrences(seq, x) == Cardinality({i \in 1..Len(seq) : seq[i] = x})

Waiting(k) ==
    \/ \E c \in Live : Occurrences(clients[c].deferred, k) > 0
    \/ \E i \in 1..Len(microtasks) : microtasks[i].call = k

\* C22: a tick that arrives while the session is not Ready does nothing: it
\* is not transmitted, it is not queued, and it is not transmitted later. A
\* tick that arrives while the session is Ready is transmitted once. So the
\* keep-alives a session has sent are exactly the ticks that found it Ready.
C22_TickDroppedUnlessReady ==
    \A c \in Live : \A k \in Ticks(c) :
        /\ ~Waiting(k)
        /\ IF calls[k].gate = "Ready"
           THEN calls[k].state = "transmitted" /\ Occurrences(clients[c].sent, k) = 1
           ELSE calls[k].state = "discarded" /\ Occurrences(clients[c].sent, k) = 0

\* A tick found the session Pending, the session became Ready and ran every
\* reaction, and a later tick was sent.
C22_Witness ==
    \E c \in Live : \E k, m \in Ticks(c) :
        /\ calls[k].gate = "Pending"
        /\ calls[m].gate = "Ready"
        /\ Ready(c)
        /\ microtasks = <<>>
        /\ Occurrences(clients[c].sent, k) = 0
        /\ Occurrences(clients[c].sent, m) = 1

\* C23: dispose() may be called in any state of the gate and stops the
\* transport: a disposed session has no live transport, so it transmits
\* nothing from then on, and nothing registers inbound handlers on it (the
\* ready callback, which sets this.languageClient and registers them, does
\* not run for it).
C23_DisposedIsSilent ==
    [][\A c \in Live :
          clients[c].disposed =>
              /\ ~(clients'[c].transport \in {"starting", "running"})
              /\ clients'[c].languageClient = clients[c].languageClient
              /\ clients'[c].sent = clients[c].sent]_vars

\* C24: when dispose() returns, the session tracks no document.
C24_DisposeClearsTracked ==
    [][\A c \in Live :
          ~clients[c].disposed /\ clients'[c].disposed =>
              \A d \in Docs : <<c, d>> \notin tracked']_vars

\* C25: when dispose() returns, every request made through the gate of the
\* disposed session is settled: none of them is still waiting for the gate.
C25_DisposeSettlesRequests ==
    [][\A c \in Live :
          ~clients[c].disposed /\ clients'[c].disposed =>
              \A k \in CallIds :
                  calls[k].client = c /\ calls[k].kind \in Requests => calls'[k].state # "deferred"]_vars

\* The value the writes so far leave in model.isTagParsing of session c,
\* which is constructed holding false.
LastWritten(c) ==
    LET mine == {i \in 1..Len(writes) : writes[i].client = c}
    IN IF mine = {} THEN FALSE
       ELSE writes[CHOOSE i \in mine : \A j \in mine : j <= i].value

EnabledKeys(c) == {key \in ModelKeys : <<c, key>> \in activated}

CallsOf(c, kind) == {k \in CallIds : calls[k].client = c /\ calls[k].kind = kind}

\* C27: the five model fields of a session are enabled together or disabled
\* together in every state, and they are disabled from construction until
\* the first activate().
C27_FieldsToggleTogether ==
    \A c \in Live :
        /\ EnabledKeys(c) \in {{}, ModelKeys}
        /\ CallsOf(c, "resumeParsing") = {} => EnabledKeys(c) = {}

\* One session never activated, one activated, deactivated and activated again.
C27_Witness ==
    \E c, e \in Live :
        /\ CallsOf(e, "resumeParsing") = {}
        /\ EnabledKeys(e) = {}
        /\ CallsOf(c, "pauseParsing") # {}
        /\ Cardinality(CallsOf(c, "resumeParsing")) = 2
        /\ EnabledKeys(c) = ModelKeys

\* The 'unable to start' notices shown so far, and the sessions that reach
\* Failed in a step: in the constructor's catch block or in the rejection
\* callback.
UnableCount(ns) == Cardinality({i \in 1..Len(ns) : ns[i] = UnableToStart})

FailsInStep(c) ==
    /\ ~clients'[c].isSupported
    /\ c \in Live => clients[c].isSupported

\* C28 as the spec states it: every session that reached Failed has shown
\* the 'unable to start' notice once, so there are as many notices as Failed
\* sessions.
C28_NoticePerFailedSession ==
    UnableCount(notices) = Cardinality({c \in Live : Failed(c)})

\* C28, amended: a session that reaches Failed shows the notice iff
\* failureMessageShown is unset, and sets it; nothing else shows the notice.
\* The flag is one persisted value shared by all sessions and is cleared only
\* by a session becoming Ready, so sessions failing one after the other show
\* one notice, and none if the flag was already set.
C28_NoticeUnlessAlreadyShown ==
    [][LET failing == {c \in 1..Len(clients') : FailsInStep(c)}
       IN IF failing = {}
          THEN UnableCount(notices') = UnableCount(notices)
          ELSE /\ notices' = IF failureMessageShown THEN notices ELSE Append(notices, UnableToStart)
               /\ failureMessageShown']_vars

\* Two sessions have failed and one notice was shown.
C28_Witness ==
    /\ Cardinality({c \in Live : Failed(c)}) = 2
    /\ UnableCount(notices) = 1

\* The gate as the gated call k found it.
GateAt(k) == IF k = QueryDefaultPaths THEN "callback" ELSE calls[k].gate

Toggles(c) == CallsOf(c, "resumeParsing") \cup CallsOf(c, "pauseParsing")

SentToggles(c) == {i \in 1..Len(clients[c].sent) : clients[c].sent[i] \in Toggles(c)}

Last(S) == CHOOSE x \in S : \A y \in S : y <= x

\* C30: once the gate of a session is Ready and every reaction has run, the
\* last pause or resume it transmitted is the one of the last activate() or
\* deactivate() called on it, whether the calls were made before or after
\* readiness: resume if the fields are enabled, pause if they are not.
C30_LastToggleWins ==
    \A c \in Live :
        Ready(c) /\ microtasks = <<>> /\ Toggles(c) # {} =>
            /\ SentToggles(c) # {}
            /\ clients[c].sent[Last(SentToggles(c))] = Last(Toggles(c))
            /\ calls[Last(Toggles(c))].kind =
                   IF EnabledKeys(c) = ModelKeys THEN "resumeParsing" ELSE "pauseParsing"

\* activate() and then deactivate() while Pending, another activate() after
\* readiness, everything transmitted.
C30_Witness ==
    \E c \in Live :
        /\ Ready(c)
        /\ microtasks = <<>>
        /\ Cardinality({k \in Toggles(c) : calls[k].gate = "Pending"}) = 2
        /\ calls[Last(Toggles(c))].gate = "Ready"
        /\ calls[Last(Toggles(c))].kind = "resumeParsing"
        /\ Cardinality(SentToggles(c)) = 3


(***************************************************************************)
(* C31..C34: edits, closes, the ready callback, navigation                 *)
(***************************************************************************)

\* C31: a change or a save of a document is forwarded by the sessions that
\* track the document and by no other, whichever session is active.
C31_EditForwardedIffTracked ==
    routed.event \in DocMethods => routed.forwarded = routed.asked \cap routed.before

\* C32: every tracked document is open in the editor: when the editor closes
\* a document, no session whose filter sees the close still tracks it
\* afterwards, whichever session is active.
C32_ClosedDocsUntracked ==
    [][\A d \in Docs :
          d \in openDocs /\ d \notin openDocs' =>
              \A c \in Asked : <<c, d>> \notin tracked']_vars

\* C33: what a session transmits starts with QueryDefaultPathsRequest: the
\* ready callback sends it, with the configuration handlers registered,
\* before any call deferred while Pending and before any folder-settings
\* notification.
C33_QueryDefaultPathsFirst ==
    \A c \in Live :
        /\ Ready(c) => clients[c].sent # <<>>
        /\ clients[c].sent # <<>> => clients[c].sent[1] = QueryDefaultPaths
        /\ CallsOf(c, "changeFolderSettings") # {} => Ready(c)

\* The request, then a call deferred while Pending, then the folder settings.
C33_Witness ==
    \E c \in Live :
        /\ Len(clients[c].sent) = 3
        /\ clients[c].sent[1] = QueryDefaultPaths
        /\ GateAt(clients[c].sent[2]) = "Pending"
        /\ calls[clients[c].sent[3]].kind = "changeFolderSettings"

\* C34: for every report and every setting L >= 0 the text navigate() leaves
\* in navigationLocation is at most L long: a report longer than L is cut to
\* its first L - 3 characters followed by "...", a shorter one is kept, and
\* a report that starts with "<def" leaves the text as it was.
C34_NavigationFitsLength ==
    navigation.event = "navigate" =>
        IF StartsWith(navigation.report, DefPrefix)
        THEN navigation.text = navigation.before
        ELSE /\ Len(navigation.text) <= navigation.maxLength
             /\ Len(navigation.report) <= navigation.maxLength => navigation.text = navigation.report
             /\ Len(navigation.report) > navigation.maxLength =>
                    /\ Len(navigation.text) = navigation.maxLength
                    /\ SubSeq(navigation.text, navigation.maxLength - 2, navigation.maxLength) = Ellipsis
                    /\ StartsWith(navigation.report, SubSeq(navigation.text, 1, navigation.maxLength - 3))


(***************************************************************************)
(* C35..C40: the package manager                                           *)
(***************************************************************************)

\* The seconds the claim gives for the first attempt and the five retries.
RetryDelays == <<0, 2, 4, 8, 16, 32>>

AttemptsBounded(d) ==
    /\ d.attempt <= Len(RetryDelays)
    /\ Len(d.waited) \in {d.attempt - 1, d.attempt}
    /\ d.phase \in {"requesting", "receiving", "resolved"} => Len(d.waited) = d.attempt
    /\ \A k \in 1..Len(d.waited) : d.waited[k] = RetryDelays[k]
    /\ d.attempt >= 1 => d.retryCount = d.attempt - 1 /\ d.lastError.attempt = d.attempt - 1

\* C35: DownloadPackage makes at most 6 attempts, attempt k+1 only after
\* attempt k failed, none after the first success, and the attempts wait
\* 0, 2, 4, 8, 16 and 32 seconds.
C35_AtMostSixAttempts ==
    [][\A i \in DOMAIN dl' :
          /\ AttemptsBounded(dl'[i])
          /\ i \in DOMAIN dl /\ dl[i].phase \in {"resolved", "rejected"} => dl'[i] = dl[i]
          /\ i \in DOMAIN dl /\ dl'[i].attempt # dl[i].attempt =>
                 /\ dl'[i].attempt = dl[i].attempt + 1
                 /\ dl[i].attempt >= 1 => dl[i].phase \in {"requesting", "receiving"}
                                          /\ dl'[i].lastError.kind # "none"]_vars

\* A download that succeeded at the sixth attempt, after all six waits.
C35_Witness ==
    \E i \in DOMAIN dl :
        /\ dl[i].phase = "resolved"
        /\ dl[i].attempt = 6
        /\ dl[i].waited = RetryDelays

\* The telemetry events logged for package i, and the packages after i.
TelemetryOf(i) == {k \in 1..Len(telemetry) : telemetry[k].package = i}

Later(i) == {PackageList[k] : k \in {n \in 1..Len(PackageList) : \E m \in 1..n - 1 : PackageList[m] = i}}

\* C36: when all six attempts of a package failed, DownloadPackage rejects
\* with the error of the sixth, logs nothing, and the download of no later
\* package is started. When attempt n >= 2 succeeds, 'OnRetry<n-1>' is
\* logged once, and nothing is logged when the first attempt succeeds.
C36_RejectsWithLastError ==
    \A i \in DOMAIN dl :
        /\ dl[i].phase = "rejected" /\ dl[i].error.kind # "tmp.file" =>
               /\ dl[i].attempt = Len(RetryDelays)
               /\ dl[i].error.attempt = Len(RetryDelays)
               /\ TelemetryOf(i) = {}
               /\ chain.state = "rejected"
               /\ chain.error = dl[i].error
               /\ \A j \in Later(i) : dl[j].phase = "notStarted"
        /\ dl[i].phase = "resolved" =>
               /\ Cardinality(TelemetryOf(i)) = IF dl[i].attempt >= 2 THEN 1 ELSE 0
               /\ \A k \in TelemetryOf(i) : telemetry[k].success = dl[i].attempt - 1
        /\ dl[i].phase \notin {"resolved"} => TelemetryOf(i) = {}

\* The first package succeeded at its third attempt and logged OnRetry2, and
\* all six attempts of the second failed: the chain rejected with the sixth
\* error and nothing was logged for the second package.
C36_Witness ==
    /\ DOMAIN dl = Packages
    /\ dl[1].phase = "resolved"
    /\ dl[1].attempt = 3
    /\ Len(telemetry) = 1
    /\ telemetry[1].package = 1
    /\ telemetry[1].success = 2
    /\ dl[2].phase = "rejected"
    /\ dl[2].error.attempt = 6
    /\ chain.state = "rejected"
    /\ chain.error = dl[2].error

\* The packages whose DownloadPackage promise is neither resolved nor rejected.
Downloading == {i \in DOMAIN dl : dl[i].phase \in {"waiting", "requesting", "receiving"}}

\* C37: the chain calls the builder in list order and one item at a time:
\* an item is started only when every item before it has resolved, at most
\* one is in progress, and once an item has rejected no later item is
\* started and the chain is rejected with the error of that item.
C37_ChainRunsInSequence ==
    chain.op = "download" =>
        /\ IsPrefix(chain.started, PackageList)
        /\ Cardinality(Downloading) <= 1
        /\ \A k \in 1..Len(chain.started) - 1 : dl[chain.started[k]].phase = "resolved"
        /\ \A i \in DOMAIN dl : dl[i].phase # "notStarted" <=> \E k \in 1..Len(chain.started) : chain.started[k] = i
        /\ \A i \in DOMAIN dl : dl[i].phase = "rejected" =>
               chain.state = "rejected" /\ chain.error = dl[i].error
        /\ chain.state = "resolved" <=> \A i \in DOMAIN dl : dl[i].phase = "resolved"

\* The first package has resolved and the second is being received.
C37_Witness ==
    /\ chain.op = "download"
    /\ chain.started = PackageList
    /\ dl[1].phase = "resolved"
    /\ dl[2].phase = "receiving"

\* C38: when DownloadPackage has resolved, the temporary file of the package
\* holds the body of the response that ended well and nothing else.
C38_FileIsSuccessfulBody ==
    \A i \in DOMAIN dl : dl[i].phase = "resolved" => files[i] = dl[i].body

DownloadSettled(i) == i \in DOMAIN dl /\ dl[i].phase \in {"resolved", "rejected"}

\* C40: every DownloadPackage call that has started settles in the end,
\* when every timer fires, every request is answered and every response
\* ends: the requests made for one package, redirects included, are bounded.
C40_DownloadSettles ==
    \A i \in Packages : (i \in Downloading) ~> DownloadSettled(i)

====
